---- MODULE Spec2Model ----
(***************************************************************************)
(* Span-tree reconstruction engine of next-network-devtools                *)
(* (packages/web-extension/utils/spans.ts): mapServerEventToSpanTree and   *)
(* the module-level pendingEndEvents buffer.                               *)
(*                                                                         *)
(* A SpanTree is a JavaScript object used as a map from a key to a         *)
(* SpanNode object.  A node object is created under one key and stored     *)
(* only there, so node identity is the key: a children list is a sequence  *)
(* of keys (object references), and a child's fields are read through the  *)
(* map.  The map keeps its keys in insertion order (Object.entries).       *)
(***************************************************************************)
EXTENDS Integers, Sequences, FiniteSets

\* JavaScript undefined: a missing (falsy) id.  Used as a property key it is
\* the string "undefined".
None == "undefined"

\* Span ids and request ids share one key space (SpanTree is keyed by both):
\* "a" is only ever a span id, "c" only a request id, "b" is used as both.
SpanIds == {"a", "b"}
RequestIds == {"b", "c"}
Ids == SpanIds \cup RequestIds

\* Number of events delivered to one viewer.
MaxEvents == 3
\* Length of a catch-up batch.
MaxBatch == 2

OptSpanIds == SpanIds \cup {None}

---------------------------------------------------------------------------
\* Payloads.  Span, RequestSpan and ResponseSpan share the fields the
\* engine reads: id, spanId and parentSpan?.spanId.  t tells the shapes apart.

NoData == [t |-> "none", id |-> None, spanId |-> None, parentSpan |-> None]

Span(spanId, parentSpanId) ==
    [t |-> "span", id |-> spanId, spanId |-> spanId, parentSpan |-> parentSpanId]

RequestSpan(id, spanId) ==
    [t |-> "request", id |-> id, spanId |-> spanId, parentSpan |-> None]

ResponseSpan(id, spanId) ==
    [t |-> "response", id |-> id, spanId |-> spanId, parentSpan |-> None]

SpanStart(spanId, parentSpanId) ==
    [type |-> "span-start", data |-> Span(spanId, parentSpanId)]

SpanEnd(spanId, parentSpanId) ==
    [type |-> "span-end", data |-> Span(spanId, parentSpanId)]

RequestEvent(id, spanId) ==
    [type |-> "request", data |-> RequestSpan(id, spanId)]

ResponseEvent(id, spanId) ==
    [type |-> "response", data |-> ResponseSpan(id, spanId)]

CatchUpEvent(events) == [type |-> "catch-up", data |-> events]

---------------------------------------------------------------------------
\* SpanNode and SpanTree.

NoServerSpan ==
    [present |-> FALSE, start |-> NoData, end |-> NoData, isActive |-> FALSE]

\* The object literal of `spanTree[id] || {...}`.
SpanNode(isServerSpan, spanId, parentSpanId) ==
    [serverSpan   |-> NoServerSpan,
     request      |-> NoData,
     response     |-> NoData,
     children     |-> << >>,
     spanId       |-> spanId,
     parentSpanId |-> parentSpanId,
     isServerSpan |-> isServerSpan]

\* {} : no keys.
EmptyTree == [keys |-> << >>, nodes |-> << >>]

EmptyMap == << >>

Has(tree, key) == key \in DOMAIN tree.nodes

\* spanTree[key] = node
SetNode(tree, key, node) ==
    [keys  |-> IF Has(tree, key) THEN tree.keys ELSE Append(tree.keys, key),
     nodes |-> [k \in (DOMAIN tree.nodes) \cup {key} |->
                    IF k = key THEN node ELSE tree.nodes[k]]]

\* Map.set / Map.delete on pendingEndEvents
MapSet(map, key, value) ==
    [k \in (DOMAIN map) \cup {key} |-> IF k = key THEN value ELSE map[k]]

MapDelete(map, key) == [k \in (DOMAIN map) \ {key} |-> map[k]]

\* parentNode.children.push(node)
PushChild(tree, parentKey, childKey) ==
    [tree EXCEPT !.nodes[parentKey].children = Append(@, childKey)]

\* child.request?.id
RequestIdOf(node) == IF node.request.t = "none" THEN None ELSE node.request.id

\* parentNode.children.some((child) => child.spanId === spanId)
HasChildWithSpanId(tree, parentKey, spanId) ==
    \E i \in 1..Len(tree.nodes[parentKey].children) :
        tree.nodes[tree.nodes[parentKey].children[i]].spanId = spanId

\* parentNode.children.some((child) => child.request?.id === id)
HasChildWithRequestId(tree, parentKey, id) ==
    \E i \in 1..Len(tree.nodes[parentKey].children) :
        RequestIdOf(tree.nodes[tree.nodes[parentKey].children[i]]) = id

\* parentSpanId && spanTree[parentSpanId]?.isServerSpan
IsServerSpanKey(tree, parentSpanId) ==
    /\ parentSpanId # None
    /\ Has(tree, parentSpanId)
    /\ tree.nodes[parentSpanId].isServerSpan

\* Mutant: the linking step without the already-a-child check.
LinkServerSpanUnguarded(tree, spanId, parentSpanId) ==
    IF IsServerSpanKey(tree, parentSpanId)
    THEN PushChild(tree, parentSpanId, spanId)
    ELSE tree

\* The server-span linking step of span-start and span-end.
LinkServerSpan(tree, spanId, parentSpanId) ==
    IF IsServerSpanKey(tree, parentSpanId)
       /\ ~HasChildWithSpanId(tree, parentSpanId, spanId)
    THEN PushChild(tree, parentSpanId, spanId)
    ELSE tree

\* The orphan sweep of span-start: Object.entries(spanTree), in key order,
\* from position i on.
RECURSIVE AttachOrphans(_, _, _)
AttachOrphans(tree, spanId, i) ==
    IF i > Len(tree.keys) THEN tree
    ELSE LET nodeId == tree.keys[i]
             node   == tree.nodes[nodeId]
         IN  IF /\ nodeId # spanId
                /\ node.parentSpanId = spanId
                /\ node.isServerSpan
                /\ ~HasChildWithSpanId(tree, spanId, nodeId)
             THEN AttachOrphans(PushChild(tree, spanId, nodeId), spanId, i + 1)
             ELSE AttachOrphans(tree, spanId, i + 1)

---------------------------------------------------------------------------
\* The four event handlers.  st = [spanTree, pendingEndEvents].

\* Mutant: span-start without the pending-end pickup.
StartedServerSpanWithoutPickup(data, pending) ==
    [present |-> TRUE, start |-> data, end |-> NoData, isActive |-> TRUE]

\* existingNode.serverSpan = { start: data, isActive: true }, then the
\* pending-end pickup.
StartedServerSpan(data, pending) ==
    IF data.spanId \in DOMAIN pending
    THEN [present |-> TRUE, start |-> data, end |-> pending[data.spanId],
          isActive |-> FALSE]
    ELSE [present |-> TRUE, start |-> data, end |-> NoData, isActive |-> TRUE]

\* Mutant: span-start without the `if (spanId)` guard.
OnSpanStartUnguarded(st, data) ==
    LET spanId       == data.spanId
        parentSpanId == data.parentSpan
        tree         == st.spanTree
        existingNode ==
            IF Has(tree, spanId) THEN tree.nodes[spanId]
            ELSE SpanNode(TRUE, spanId, parentSpanId)
        node == [existingNode EXCEPT
                   !.serverSpan   = StartedServerSpan(data, st.pendingEndEvents),
                   !.isServerSpan = TRUE,
                   !.spanId       = spanId,
                   !.parentSpanId = parentSpanId]
        t1 == SetNode(tree, spanId, node)
        t2 == LinkServerSpan(t1, spanId, parentSpanId)
    IN  [spanTree         |-> AttachOrphans(t2, spanId, 1),
         pendingEndEvents |-> MapDelete(st.pendingEndEvents, spanId)]

OnSpanStart(st, data) ==
    LET spanId       == data.spanId
        parentSpanId == data.parentSpan
        tree         == st.spanTree
    IN  IF spanId = None THEN st
        ELSE
          LET existingNode ==
                  IF Has(tree, spanId) THEN tree.nodes[spanId]
                  ELSE SpanNode(TRUE, spanId, parentSpanId)
              node == [existingNode EXCEPT
                         !.serverSpan   = StartedServerSpan(data, st.pendingEndEvents),
                         !.isServerSpan = TRUE,
                         !.spanId       = spanId,
                         !.parentSpanId = parentSpanId]
              t1 == SetNode(tree, spanId, node)
              t2 == LinkServerSpan(t1, spanId, parentSpanId)
          IN  [spanTree         |-> AttachOrphans(t2, spanId, 1),
               pendingEndEvents |-> MapDelete(st.pendingEndEvents, spanId)]

\* The update of an existing node by span-end.
EndedNode(existingNode, data) ==
    IF existingNode.serverSpan.present
    THEN [existingNode EXCEPT !.serverSpan.end = data,
                              !.serverSpan.isActive = FALSE]
    ELSE [existingNode EXCEPT
             !.serverSpan   = [present |-> TRUE, start |-> NoData,
                               end |-> data, isActive |-> FALSE],
             !.isServerSpan = TRUE,
             !.spanId       = data.spanId,
             !.parentSpanId = data.parentSpan]

\* Mutant: a span-end for a span that has no node creates the node instead
\* of buffering the event.
OnSpanEndCreatesNode(st, data) ==
    LET spanId       == data.spanId
        parentSpanId == data.parentSpan
        tree         == st.spanTree
        existingNode == IF Has(tree, spanId) THEN tree.nodes[spanId]
                        ELSE SpanNode(TRUE, spanId, parentSpanId)
    IN  IF spanId # None
        THEN LET t1 == SetNode(tree, spanId, EndedNode(existingNode, data))
             IN  [st EXCEPT !.spanTree = LinkServerSpan(t1, spanId, parentSpanId)]
        ELSE st

OnSpanEnd(st, data) ==
    LET spanId       == data.spanId
        parentSpanId == data.parentSpan
        tree         == st.spanTree
    IN  IF spanId # None /\ Has(tree, spanId)
        THEN LET t1 == SetNode(tree, spanId, EndedNode(tree.nodes[spanId], data))
             IN  [st EXCEPT !.spanTree = LinkServerSpan(t1, spanId, parentSpanId)]
        ELSE IF spanId # None
        THEN [st EXCEPT !.pendingEndEvents = MapSet(@, spanId, data)]
        ELSE st

\* Mutant: the request handler without the already-a-child check.
OnRequestUnguarded(st, data) ==
    LET id           == data.id
        parentSpanId == data.spanId
        tree         == st.spanTree
        existing     == IF Has(tree, id) THEN tree.nodes[id]
                        ELSE SpanNode(FALSE, data.spanId, parentSpanId)
        node         == [existing EXCEPT !.request = data,
                                         !.parentSpanId = parentSpanId]
        t1           == SetNode(tree, id, node)
    IN  [st EXCEPT !.spanTree =
            IF IsServerSpanKey(t1, parentSpanId)
            THEN PushChild(t1, parentSpanId, id)
            ELSE t1]

OnRequest(st, data) ==
    LET id           == data.id
        parentSpanId == data.spanId
        tree         == st.spanTree
        existing     == IF Has(tree, id) THEN tree.nodes[id]
                        ELSE SpanNode(FALSE, data.spanId, parentSpanId)
        node         == [existing EXCEPT !.request = data,
                                         !.parentSpanId = parentSpanId]
        t1           == SetNode(tree, id, node)
    IN  [st EXCEPT !.spanTree =
            IF IsServerSpanKey(t1, parentSpanId)
               /\ ~HasChildWithRequestId(t1, parentSpanId, id)
            THEN PushChild(t1, parentSpanId, id)
            ELSE t1]

\* Array.prototype.find: the first of the positions `hits`, 0 if none.
FirstOf(hits) ==
    IF hits = {} THEN 0 ELSE CHOOSE i \in hits : \A j \in hits : i <= j

\* parentNode.children.find((child) => child.request?.id === id)
ExistingChild(tree, parentKey, id) ==
    LET children == tree.nodes[parentKey].children
    IN  FirstOf({i \in 1..Len(children) :
                    RequestIdOf(tree.nodes[children[i]]) = id})

\* parentNode.children.find((child) => child.spanId === node.spanId &&
\*                                     child.request && !child.response)
AvailableChild(tree, parentKey, spanId) ==
    LET children == tree.nodes[parentKey].children
    IN  FirstOf({i \in 1..Len(children) :
                    /\ tree.nodes[children[i]].spanId = spanId
                    /\ tree.nodes[children[i]].request.t # "none"
                    /\ tree.nodes[children[i]].response.t = "none"})

\* existingChild || availableChild of the response handler: the key of the
\* target child, None if there is none.
TargetChild(tree, parentKey, id, spanId) ==
    LET children       == tree.nodes[parentKey].children
        existingChild  == ExistingChild(tree, parentKey, id)
        availableChild == AvailableChild(tree, parentKey, spanId)
    IN  IF existingChild # 0 THEN children[existingChild]
        ELSE IF availableChild # 0 THEN children[availableChild]
        ELSE None

\* Mutant: the response handler starts from a fresh node instead of the
\* existing one.
OnResponseFreshNode(st, data) ==
    LET id           == data.id
        parentSpanId == data.spanId
        tree         == st.spanTree
        node         == [SpanNode(FALSE, data.spanId, parentSpanId)
                            EXCEPT !.response = data]
        t1           == SetNode(tree, id, node)
    IN  [st EXCEPT !.spanTree =
            IF IsServerSpanKey(t1, parentSpanId)
               /\ TargetChild(t1, parentSpanId, id, node.spanId) = None
            THEN PushChild(t1, parentSpanId, id)
            ELSE t1]

OnResponse(st, data) ==
    LET id           == data.id
        parentSpanId == data.spanId
        tree         == st.spanTree
        existing     == IF Has(tree, id) THEN tree.nodes[id]
                        ELSE SpanNode(FALSE, data.spanId, parentSpanId)
        node         == [existing EXCEPT !.response = data,
                                         !.parentSpanId = parentSpanId]
        t1           == SetNode(tree, id, node)
    IN  [st EXCEPT !.spanTree =
            IF IsServerSpanKey(t1, parentSpanId)
            THEN LET targetChild == TargetChild(t1, parentSpanId, id, node.spanId)
                 IN  IF targetChild # None
                     THEN [t1 EXCEPT !.nodes[targetChild].response = data]
                     ELSE PushChild(t1, parentSpanId, id)
            ELSE t1]

\* One event other than catch-up.
ApplyEvent(st, event) ==
    CASE event.type = "span-start" -> OnSpanStart(st, event.data)
      [] event.type = "span-end"   -> OnSpanEnd(st, event.data)
      [] event.type = "request"    -> OnRequest(st, event.data)
      [] event.type = "response"   -> OnResponse(st, event.data)

\* Mutant: the batch is folded from its last event to its first.
RECURSIVE ReduceRight(_, _)
ReduceRight(events, st) ==
    IF events = << >> THEN st
    ELSE ApplyEvent(ReduceRight(Tail(events), st), Head(events))

\* data.reduce((prevTree, event) => mapServerEventToSpanTree(event, prevTree),
\*             spanTree)
RECURSIVE Reduce(_, _)
Reduce(events, st) ==
    IF events = << >> THEN st
    ELSE Reduce(Tail(events), ApplyEvent(st, Head(events)))

mapServerEventToSpanTree(event, st) ==
    IF event.type = "catch-up" THEN Reduce(event.data, st)
    ELSE ApplyEvent(st, event)

---------------------------------------------------------------------------
\* The events a viewer can receive.

SpanStartEvents == {SpanStart(s, p) : s \in SpanIds, p \in OptSpanIds}
                       \cup {SpanStart(None, None)}
SpanEndEvents   == {SpanEnd(s, p) : s \in SpanIds, p \in OptSpanIds}
                       \cup {SpanEnd(None, None)}
RequestEvents   == {RequestEvent(i, s) : i \in RequestIds, s \in OptSpanIds}
ResponseEvents  == {ResponseEvent(i, s) : i \in RequestIds, s \in OptSpanIds}

Events == SpanStartEvents \cup SpanEndEvents \cup RequestEvents \cup ResponseEvents

---------------------------------------------------------------------------
\* Catch-up batches: the relay's log, at most MaxBatch events.
RECURSIVE SeqsUpTo(_, _)
SeqsUpTo(S, n) ==
    IF n = 0 THEN {<< >>}
    ELSE LET shorter == SeqsUpTo(S, n - 1)
         IN  shorter \cup {Append(q, e) : q \in shorter, e \in S}

Batches == SeqsUpTo(Events, MaxBatch)

BatchesOfLength == [n \in 0..MaxBatch |-> {b \in Batches : Len(b) = n}]

---------------------------------------------------------------------------
\* One viewer: its tree, the module's pending-end buffer, the number of
\* events received and the type of the last message handled.  undelivered is
\* the part of a fixed trace still to arrive in any order (SpecReliable) and
\* trace is a fixed trace that arrives in its own order (SpecTrace); under
\* Spec the events are drawn freely and both stay empty.

VARIABLES spanTree, pendingEndEvents, received, lastType, undelivered, trace

\* The relay and the viewers connected to it (SpecRelay); under the other
\* specifications there is no relay and these stay as RelayIdle leaves them.
\*   sentEvents  the relay's replay log
\*   clients     the viewers whose connection the relay holds open
\*   sent        per viewer, the messages the relay sent on its connection
\*   delivered   per viewer, how many of them its onmessage has handled
\*   clearAlls   per viewer, the clear-all messages on their way to the relay
\*   trees       per viewer, its panel's tree and pendingEndEvents
\*   broadcasts  every event the relay has broadcast, in order
\*   cleared     how many of them came before the last clear-all it processed
\*   joined      per viewer, the log and the number of broadcasts at the time
\*               its connection was accepted
VARIABLES sentEvents, clients, sent, delivered, clearAlls, trees,
          broadcasts, cleared, joined

viewerVars == <<spanTree, pendingEndEvents, received, lastType, undelivered, trace>>

relayVars == <<sentEvents, clients, sent, delivered, clearAlls, trees,
               broadcasts, cleared, joined>>

\* The waterfall chart (SpecChart): the timing data it is given, in ticks, and
\* the layout it last computed.
VARIABLES data, positioned

chartVars == <<data, positioned>>

\* The extension around the panel: the useWS hook of one mounted App (SpecWS)
\* and the devtools page that registers the panel (SpecDevtools).
\*   hook      sockets: every WebSocket the hook has created, with the effect
\*             run that created it and its readyState; wsRef: wsRef.current
\*             (0 for null); status; reconnectTimer: per effect run, its
\*             reconnectTimer variable; mounted: the last effect run has not
\*             been cleaned up
\*   devtools  panelCreated: the module flag; panels: the panels the browser
\*             has been asked to create; calls: the createPanelWhenReady
\*             calls, each with where it stands, its attempt and the last
\*             response its waitForDetection received
VARIABLES hook, devtools

shellVars == <<hook, devtools>>

vars == <<viewerVars, relayVars, chartVars, shellVars>>

\* The panels that can be open.
Viewers == {1, 2}

RelayIdle ==
    /\ sentEvents = << >>
    /\ clients = {}
    /\ sent = [v \in Viewers |-> << >>]
    /\ delivered = [v \in Viewers |-> 0]
    /\ clearAlls = [v \in Viewers |-> 0]
    /\ trees = [v \in Viewers |->
                   [spanTree |-> EmptyTree, pendingEndEvents |-> EmptyMap]]
    /\ broadcasts = << >>
    /\ cleared = 0
    /\ joined = [v \in Viewers |-> [at |-> 0, log |-> << >>]]

ChartIdle ==
    /\ data = << >>
    /\ positioned = << >>

HookUnmounted ==
    [sockets |-> << >>, wsRef |-> 0, status |-> "disconnected",
     reconnectTimer |-> << >>, mounted |-> FALSE]

DevtoolsClosed == [panelCreated |-> FALSE, panels |-> 0, calls |-> << >>]

ShellIdle ==
    /\ hook = HookUnmounted
    /\ devtools = DevtoolsClosed

State == [spanTree |-> spanTree, pendingEndEvents |-> pendingEndEvents]

EmptyState == [spanTree |-> EmptyTree, pendingEndEvents |-> EmptyMap]

Init ==
    /\ spanTree = EmptyTree
    /\ pendingEndEvents = EmptyMap
    /\ received = 0
    /\ lastType = "none"
    /\ undelivered = {}
    /\ trace = << >>
    /\ RelayIdle
    /\ ShellIdle
    /\ ChartIdle

\* ws.onmessage: the tree becomes mapServerEventToSpanTree(event, prev).
OnMessage(event, n) ==
    /\ \E st \in {mapServerEventToSpanTree(event, State)} :
          /\ spanTree' = st.spanTree
          /\ pendingEndEvents' = st.pendingEndEvents
    /\ received' = received + n
    /\ lastType' = event.type

Receive(event, n) ==
    /\ received + n <= MaxEvents
    /\ OnMessage(event, n)
    /\ UNCHANGED <<undelivered, trace>>
    /\ UNCHANGED <<relayVars, chartVars, shellVars>>

ReceiveSpanStart == \E e \in SpanStartEvents : Receive(e, 1)
ReceiveSpanEnd   == \E e \in SpanEndEvents : Receive(e, 1)
ReceiveRequest   == \E e \in RequestEvents : Receive(e, 1)
ReceiveResponse  == \E e \in ResponseEvents : Receive(e, 1)
ReceiveCatchUp   ==
    \E n \in 0..MaxBatch :
        /\ received + n <= MaxEvents
        /\ \E b \in BatchesOfLength[n] : Receive(CatchUpEvent(b), n)

Next ==
    \/ ReceiveSpanStart
    \/ ReceiveSpanEnd
    \/ ReceiveRequest
    \/ ReceiveResponse
    \/ ReceiveCatchUp

Spec == Init /\ [][Next]_vars

---------------------------------------------------------------------------
\* A trace with reliable correlation ids: one span, two exchanges inside it,
\* every event emitted once, delivered in any order.

ReliableSpan == "a"
ReliableRequestIds == {"b", "c"}

ReliableTrace ==
    {SpanStart(ReliableSpan, None), SpanEnd(ReliableSpan, None)}
        \cup {RequestEvent(i, ReliableSpan) : i \in ReliableRequestIds}
        \cup {ResponseEvent(i, ReliableSpan) : i \in ReliableRequestIds}

InitReliable ==
    /\ spanTree = EmptyTree
    /\ pendingEndEvents = EmptyMap
    /\ received = 0
    /\ lastType = "none"
    /\ undelivered = ReliableTrace
    /\ trace = << >>
    /\ RelayIdle
    /\ ShellIdle
    /\ ChartIdle

Deliver(type) ==
    \E e \in undelivered :
        /\ e.type = type
        /\ OnMessage(e, 1)
        /\ undelivered' = undelivered \ {e}
        /\ UNCHANGED trace
        /\ UNCHANGED <<relayVars, chartVars, shellVars>>

DeliverSpanStart == Deliver("span-start")
DeliverSpanEnd   == Deliver("span-end")
DeliverRequest   == Deliver("request")
DeliverResponse  == Deliver("response")

NextReliable ==
    \/ DeliverSpanStart
    \/ DeliverSpanEnd
    \/ DeliverRequest
    \/ DeliverResponse

SpecReliable == InitReliable /\ [][NextReliable]_vars

---------------------------------------------------------------------------
\* Fixed traces applied to an empty tree in their own order, as the engine's
\* test suite does: nested spans with one exchange, a repeated child
\* span-start or request, and out-of-order arrival.

TraceIds == {"r", "m", "x", "y"}
OptTraceIds == TraceIds \cup {None}

\* How many times an event is delivered again.
MaxRepeat == 3

\* span-start(r), span-start(m in r), request and response i in m,
\* span-end(m), span-end(r).
NestedTrace(r, m, i) ==
    <<SpanStart(r, None), SpanStart(m, r), RequestEvent(i, m),
      ResponseEvent(i, m), SpanEnd(m, r), SpanEnd(r, None)>>

NestedTraces ==
    UNION {UNION {{NestedTrace(r, m, i) : i \in TraceIds \ {r, m}}
                     : m \in TraceIds \ {r}}
              : r \in TraceIds}

\* The parent's span-start, then the same child span-start n times.
RepeatedChildStart(p, q, c, n) ==
    <<SpanStart(p, q)>> \o [k \in 1..n |-> SpanStart(c, p)]

RepeatedChildStartTraces ==
    UNION {{RepeatedChildStart(p, q, c, n) :
               q \in OptTraceIds \ {p}, c \in TraceIds \ {p}, n \in 1..MaxRepeat}
              : p \in TraceIds}

\* The containing span's span-start, then the same request n times.
RepeatedRequest(s, i, n) ==
    <<SpanStart(s, None)>> \o [k \in 1..n |-> RequestEvent(i, s)]

RepeatedRequestTraces ==
    {RepeatedRequest(s, i, n) :
        s \in TraceIds, i \in TraceIds, n \in 1..MaxRepeat}

\* Position of event e in the sequence t (0 if absent).
PositionOf(t, e) ==
    IF \E k \in 1..Len(t) : t[k] = e
    THEN CHOOSE k \in 1..Len(t) : t[k] = e
    ELSE 0

\* The five events of the mixed-ordering scenario: an exchange i in span s and
\* a child span c of s whose span-end carries parent q.
MixedEvents(s, i, c, q) ==
    {RequestEvent(i, s), SpanStart(s, None), ResponseEvent(i, s),
     SpanEnd(c, q), SpanStart(c, s)}

\* t is an arrival order of the five events with the request before
\* span-start(s), the response after it, and the child's span-end before the
\* child's span-start.
IsMixedOrder(t, s, i, c, q) ==
    /\ Len(t) = 5
    /\ \A e \in MixedEvents(s, i, c, q) : PositionOf(t, e) # 0
    /\ PositionOf(t, RequestEvent(i, s)) < PositionOf(t, SpanStart(s, None))
    /\ PositionOf(t, SpanStart(s, None)) < PositionOf(t, ResponseEvent(i, s))
    /\ PositionOf(t, SpanEnd(c, q)) < PositionOf(t, SpanStart(c, s))

MixedOrderTraces(s, i, c, q) ==
    {t \in [1..5 -> MixedEvents(s, i, c, q)] : IsMixedOrder(t, s, i, c, q)}

MixedTraces ==
    UNION {UNION {UNION {MixedOrderTraces(s, i, c, q) :
                            q \in {None, s}, c \in TraceIds \ {s, i}}
                     : i \in TraceIds \ {s}}
              : s \in TraceIds}

\* The nested scenario with the request of span m arriving before m's
\* span-start.
LateSpanTrace(r, m, i) ==
    <<SpanStart(r, None), RequestEvent(i, m), SpanStart(m, r),
      ResponseEvent(i, m), SpanEnd(m, r), SpanEnd(r, None)>>

LateSpanTraces ==
    UNION {UNION {{LateSpanTrace(r, m, i) : i \in TraceIds \ {r, m}}
                     : m \in TraceIds \ {r}}
              : r \in TraceIds}

Traces ==
    NestedTraces \cup RepeatedChildStartTraces \cup RepeatedRequestTraces
        \cup MixedTraces \cup LateSpanTraces

InitTrace ==
    /\ spanTree = EmptyTree
    /\ pendingEndEvents = EmptyMap
    /\ received = 0
    /\ lastType = "none"
    /\ undelivered = {}
    /\ trace \in Traces
    /\ RelayIdle
    /\ ShellIdle
    /\ ChartIdle

\* The next event of the trace arrives.
DeliverNext(type) ==
    /\ received < Len(trace)
    /\ trace[received + 1].type = type
    /\ OnMessage(trace[received + 1], 1)
    /\ UNCHANGED <<undelivered, trace>>
    /\ UNCHANGED <<relayVars, chartVars, shellVars>>

DeliverNextSpanStart == DeliverNext("span-start")
DeliverNextSpanEnd   == DeliverNext("span-end")
DeliverNextRequest   == DeliverNext("request")
DeliverNextResponse  == DeliverNext("response")

NextTrace ==
    \/ DeliverNextSpanStart
    \/ DeliverNextSpanEnd
    \/ DeliverNextRequest
    \/ DeliverNextResponse

SpecTrace == InitTrace /\ [][NextTrace]_vars

\* The event e of the trace has arrived.
Arrived(e) == \E k \in 1..received : trace[k] = e

---------------------------------------------------------------------------
\* The relay (packages/nextjs-plugin/src/server.ts) and the panels connected
\* to it (App and useWS).  Every panel is a page of its own, so each has its
\* own tree and its own pendingEndEvents.

MaxBroadcasts == 2

MaxClearAlls == 1

\* What the instrumented server emits: the start and the end of a server span.
RelayEvents ==
    { SpanStart("a", None), SpanEnd("a", None) }

RelayBatches == SeqsUpTo(RelayEvents, MaxBroadcasts)

InitRelay ==
    /\ spanTree = EmptyTree
    /\ pendingEndEvents = EmptyMap
    /\ received = 0
    /\ lastType = None
    /\ undelivered = {}
    /\ trace = << >>
    /\ RelayIdle
    /\ ShellIdle
    /\ ChartIdle

\* A panel opens a socket and the relay's connection handler runs: the client
\* is registered and the whole log is sent to it as one catch-up message.
ConnectWithoutCatchUp(v) ==
    /\ v \notin clients
    /\ clients' = clients \cup {v}
    /\ sent' = [sent EXCEPT ![v] = << >>]
    /\ delivered' = [delivered EXCEPT ![v] = 0]
    /\ joined' = [joined EXCEPT ![v] = [at |-> Len(broadcasts), log |-> sentEvents]]
    /\ UNCHANGED <<sentEvents, clearAlls, trees, broadcasts, cleared>>
    /\ UNCHANGED <<viewerVars, chartVars, shellVars>>

Connect(v) ==
    /\ v \notin clients
    /\ clients' = clients \cup {v}
    /\ sent' = [sent EXCEPT ![v] = <<CatchUpEvent(sentEvents)>>]
    /\ delivered' = [delivered EXCEPT ![v] = 0]
    /\ joined' = [joined EXCEPT ![v] = [at |-> Len(broadcasts), log |-> sentEvents]]
    /\ UNCHANGED <<sentEvents, clearAlls, trees, broadcasts, cleared>>
    /\ UNCHANGED <<viewerVars, chartVars, shellVars>>

\* broadcast(event): the event is pushed on the log and sent to every client
\* whose socket is open.
BroadcastNewestFirst(event) ==
    /\ Len(broadcasts) < MaxBroadcasts
    /\ sentEvents' = Append(sentEvents, event)
    /\ broadcasts' = Append(broadcasts, event)
    /\ sent' = [v \in Viewers |->
                  IF v \in clients /\ sent[v] # << >>
                  THEN <<Head(sent[v]), event>> \o Tail(sent[v])
                  ELSE sent[v]]
    /\ UNCHANGED <<clients, delivered, clearAlls, trees, cleared, joined>>
    /\ UNCHANGED <<viewerVars, chartVars, shellVars>>

Broadcast(event) ==
    /\ Len(broadcasts) < MaxBroadcasts
    /\ sentEvents' = Append(sentEvents, event)
    /\ broadcasts' = Append(broadcasts, event)
    /\ sent' = [v \in Viewers |->
                  IF v \in clients THEN Append(sent[v], event) ELSE sent[v]]
    /\ UNCHANGED <<clients, delivered, clearAlls, trees, cleared, joined>>
    /\ UNCHANGED <<viewerVars, chartVars, shellVars>>

\* The panel's onmessage: the next message of the connection is parsed and
\* folded into the tree the panel already holds.
ReceiveMessage(v) ==
    /\ v \in clients
    /\ delivered[v] < Len(sent[v])
    /\ trees' = [trees EXCEPT ![v] =
                    mapServerEventToSpanTree(sent[v][delivered[v] + 1], @)]
    /\ delivered' = [delivered EXCEPT ![v] = @ + 1]
    /\ UNCHANGED <<sentEvents, clients, sent, clearAlls, broadcasts,
                   cleared, joined>>
    /\ UNCHANGED <<viewerVars, chartVars, shellVars>>

\* handleClearData: clear-all is sent (send throws unless the socket is open)
\* and the panel's tree is replaced by the empty map.  pendingEndEvents is
\* not touched.
ClearData(v) ==
    /\ v \in clients
    /\ clearAlls[v] < MaxClearAlls
    /\ clearAlls' = [clearAlls EXCEPT ![v] = @ + 1]
    /\ trees' = [trees EXCEPT ![v].spanTree = EmptyTree]
    /\ UNCHANGED <<sentEvents, clients, sent, delivered, broadcasts,
                   cleared, joined>>
    /\ UNCHANGED <<viewerVars, chartVars, shellVars>>

\* The relay's message handler takes a clear-all: the log is emptied.
RelayClearAllKeepsLog(v) ==
    /\ clearAlls[v] > 0
    /\ clearAlls' = [clearAlls EXCEPT ![v] = @ - 1]
    /\ cleared' = Len(broadcasts)
    /\ UNCHANGED <<sentEvents, clients, sent, delivered, trees, broadcasts, joined>>
    /\ UNCHANGED <<viewerVars, chartVars, shellVars>>

RelayClearAll(v) ==
    /\ clearAlls[v] > 0
    /\ clearAlls' = [clearAlls EXCEPT ![v] = @ - 1]
    /\ sentEvents' = << >>
    /\ cleared' = Len(broadcasts)
    /\ UNCHANGED <<clients, sent, delivered, trees, broadcasts, joined>>
    /\ UNCHANGED <<viewerVars, chartVars, shellVars>>

\* The connection closes: the relay forgets the client, and what was still on
\* its way in either direction is lost.  The panel keeps its tree.
Close(v) ==
    /\ v \in clients
    /\ clients' = clients \ {v}
    /\ sent' = [sent EXCEPT ![v] = << >>]
    /\ delivered' = [delivered EXCEPT ![v] = 0]
    /\ clearAlls' = [clearAlls EXCEPT ![v] = 0]
    /\ joined' = [joined EXCEPT ![v] = [at |-> 0, log |-> << >>]]
    /\ UNCHANGED <<sentEvents, trees, broadcasts, cleared>>
    /\ UNCHANGED <<viewerVars, chartVars, shellVars>>

NextRelay ==
    \/ \E v \in Viewers : Connect(v)
    \/ \E event \in RelayEvents : Broadcast(event)
    \/ \E v \in Viewers : ReceiveMessage(v)
    \/ \E v \in Viewers : ClearData(v)
    \/ \E v \in Viewers : RelayClearAll(v)
    \/ \E v \in Viewers : Close(v)

SpecRelay == InitRelay /\ [][NextRelay]_vars

---------------------------------------------------------------------------
\* The waterfall chart (devtools-panel/components/waterfall-chart.tsx):
\* positionedData assigns a row to every timing.  Times are milliseconds with
\* a fraction; here they are whole ticks, TicksPerMs ticks to a millisecond.
\* left and width of a positioned timing do not enter the row and are left
\* out.

MaxItems == 3

MaxTime == 4

TicksPerMs == 2

\* The step the time range is rounded up to, in milliseconds.
TimeAxisStep == 1000

Times == 0..MaxTime

\* TimingData with start <= end: a request's start and its response's end, or
\* a server span's.
Timing(start, end) == [start |-> start, end |-> end]

Timings == {Timing(t[1], t[2]) : t \in {u \in Times \X Times : u[1] <= u[2]}}

Min(S) == CHOOSE x \in S : \A y \in S : x <= y

Max(S) == CHOOSE x \in S : \A y \in S : x >= y

\* Math.floor and Math.ceil of a time, in milliseconds.
Floor(t) == t \div TicksPerMs

Ceil(t) == (t + TicksPerMs - 1) \div TicksPerMs

minTime(d) == Floor(Min({d[i].start : i \in 1..Len(d)}))

maxTime(d) == Ceil(Max({d[i].end : i \in 1..Len(d)}))

\* Math.ceil((maxTime - minTime) / 1000) * 1000
timeRange(d) ==
    ((maxTime(d) - minTime(d) + TimeAxisStep - 1) \div TimeAxisStep) * TimeAxisStep

\* [...data].sort((a, b) => a.start - b.start): the sort is stable, an item
\* goes behind every item that does not start later.
RECURSIVE SortedInsert(_, _)
SortedInsert(sorted, item) ==
    IF sorted = << >> THEN <<item>>
    ELSE IF sorted[Len(sorted)].start <= item.start THEN Append(sorted, item)
    ELSE Append(SortedInsert(SubSeq(sorted, 1, Len(sorted) - 1), item),
                sorted[Len(sorted)])

RECURSIVE SortByStart(_)
SortByStart(d) ==
    IF d = << >> THEN << >>
    ELSE SortedInsert(SortByStart(SubSeq(d, 1, Len(d) - 1)), d[Len(d)])

\* The test of the some() callback.
OverlapsOnlyWhenCovered(item, occupant) ==
    item.start < occupant.start /\ item.end > occupant.end

Overlaps(item, occupant) ==
    item.start < occupant.end /\ item.end > occupant.start

RowIsFree(item, occupants) ==
    \A k \in 1..Len(occupants) : ~Overlaps(item, occupants[k])

\* The while loop: the first row, from 0, none of whose occupants overlaps
\* the item; the row after the last one is empty.
AlwaysNewRow(item, rowOccupancy) ==
    Len(rowOccupancy)

FirstFreeRow(item, rowOccupancy) ==
    Min({r \in 0..Len(rowOccupancy) :
            r = Len(rowOccupancy) \/ RowIsFree(item, rowOccupancy[r + 1])})

\* sortedData.map(...) of the packing branch, item i onwards.
RECURSIVE Pack(_, _, _)
Pack(sortedData, i, rowOccupancy) ==
    IF i > Len(sortedData) THEN << >>
    ELSE LET item == sortedData[i]
             row == FirstFreeRow(item, rowOccupancy)
             occupancy ==
                 IF row = Len(rowOccupancy)
                 THEN Append(rowOccupancy, <<item>>)
                 ELSE [rowOccupancy EXCEPT ![row + 1] = Append(@, item)]
         IN  <<[start |-> item.start, end |-> item.end, row |-> row]>>
             \o Pack(sortedData, i + 1, occupancy)

positionedData(d) ==
    IF d = << >> THEN << >>
    ELSE LET sortedData == SortByStart(d)
         IN  IF timeRange(d) = 0
             THEN [i \in 1..Len(sortedData) |->
                     [start |-> sortedData[i].start, end |-> sortedData[i].end,
                      row |-> i - 1]]
             ELSE Pack(sortedData, 1, << >>)

totalRows(p) ==
    IF Len(p) > 0 THEN Max({p[i].row : i \in 1..Len(p)} \cup {0}) + 1 ELSE 0

InitChart ==
    /\ spanTree = EmptyTree
    /\ pendingEndEvents = EmptyMap
    /\ received = 0
    /\ lastType = None
    /\ undelivered = {}
    /\ trace = << >>
    /\ RelayIdle
    /\ ShellIdle
    /\ data \in SeqsUpTo(Timings, MaxItems)
    /\ positioned = << >>

\* The chart renders its data.
Render ==
    /\ positioned' = positionedData(data)
    /\ UNCHANGED data
    /\ UNCHANGED <<viewerVars, relayVars, shellVars>>

NextChart == Render

SpecChart == InitChart /\ [][NextChart]_vars

---------------------------------------------------------------------------
\* Reading a tree.

Nodes == spanTree.nodes
Keys == DOMAIN spanTree.nodes

ChildrenOf(tree, key) == tree.nodes[key].children

\* Number of entries of a children list that are the node `key`.
Count(children, key) == Cardinality({i \in 1..Len(children) : children[i] = key})

HasStart(node)    == node.serverSpan.present /\ node.serverSpan.start.t # "none"
HasEnd(node)      == node.serverSpan.present /\ node.serverSpan.end.t # "none"
HasRequest(node)  == node.request.t # "none"
HasResponse(node) == node.response.t # "none"

\* Keys reachable from `key` by following children lists one or more times.
RECURSIVE Descendants(_, _, _)
Descendants(tree, frontier, seen) ==
    LET next == UNION {{ChildrenOf(tree, k)[i] : i \in 1..Len(ChildrenOf(tree, k))}
                          : k \in frontier}
    IN  IF next \subseteq seen THEN seen
        ELSE Descendants(tree, next \ seen, seen \cup next)

---------------------------------------------------------------------------
\* filterSpansWithoutChildren (filterEmptySpans).  The filter assigns
\* node.children on the node objects of its input, so it is modelled on the
\* node heap: every step takes the heap and gives the heap after it.  A
\* children list that contains one of its own ancestors makes filterChildren
\* recurse without end (RangeError); on a tree of n nodes that case is a call
\* depth above n.

\* child.children.length > 0 || child.request || child.response
HasContent(node) ==
    Len(node.children) > 0 \/ HasRequest(node) \/ HasResponse(node)

\* children.filter(...)
RECURSIVE KeepContent(_, _)
KeepContent(nodes, children) ==
    IF children = << >> THEN << >>
    ELSE IF HasContent(nodes[Head(children)])
         THEN <<Head(children)>> \o KeepContent(nodes, Tail(children))
         ELSE KeepContent(nodes, Tail(children))

\* filterChildren(children) at call depth `depth`, and the .map(...) over the
\* kept children from position i on.
RECURSIVE filterChildren(_, _, _)
RECURSIVE MapKept(_, _, _, _)
filterChildren(nodes, children, depth) ==
    IF depth > Cardinality(DOMAIN nodes)
    THEN [nodes |-> nodes, children |-> children, threw |-> TRUE]
    ELSE MapKept(nodes, KeepContent(nodes, children), 1, depth)

MapKept(nodes, kept, i, depth) ==
    IF i > Len(kept)
    THEN [nodes |-> nodes, children |-> kept, threw |-> FALSE]
    ELSE LET child == kept[i]
             sub   == filterChildren(nodes, nodes[child].children, depth + 1)
         IN  IF sub.threw
             THEN [nodes |-> sub.nodes, children |-> kept, threw |-> TRUE]
             ELSE MapKept([sub.nodes EXCEPT ![child].children = sub.children],
                          kept, i + 1, depth)

\* The loop over Object.entries(spanTree) from position i on; kept is the
\* list of keys put in `filtered` so far.
RECURSIVE FilterEntries(_, _, _, _)
FilterEntries(keys, nodes, i, kept) ==
    IF i > Len(keys)
    THEN [nodes |-> nodes, kept |-> kept, threw |-> FALSE]
    ELSE LET id == keys[i]
         IN  IF HasContent(nodes[id])
             THEN LET sub == filterChildren(nodes, nodes[id].children, 1)
                  IN  IF sub.threw
                      THEN [nodes |-> sub.nodes, kept |-> kept, threw |-> TRUE]
                      ELSE FilterEntries(keys,
                               [sub.nodes EXCEPT ![id].children = sub.children],
                               i + 1, Append(kept, id))
             ELSE FilterEntries(keys, nodes, i + 1, kept)

\* input: the argument tree after the call; output: the returned tree (its
\* nodes are the input's node objects); threw: the call ended in a RangeError.
filterSpansWithoutChildren(tree) ==
    LET run == FilterEntries(tree.keys, tree.nodes, 1, << >>)
    IN  [input  |-> [keys |-> tree.keys, nodes |-> run.nodes],
         output |-> [keys  |-> run.kept,
                     nodes |-> [k \in {run.kept[n] : n \in 1..Len(run.kept)}
                                   |-> run.nodes[k]]],
         threw  |-> run.threw]

---------------------------------------------------------------------------
\* C1: applying the same event twice in a row gives the same tree as applying
\* it once, for each of the four event kinds and every reachable engine state.
Idempotence ==
    \A e \in Events :
        LET once  == mapServerEventToSpanTree(e, State)
            twice == mapServerEventToSpanTree(e, once)
        IN  twice.spanTree = once.spanTree

\* C2: no children list of a reachable tree contains the same node twice.
NoDuplicateChildren ==
    \A k \in Keys : \A c \in Keys : Count(Nodes[k].children, c) <= 1

\* C7: the children relation of every reachable tree is acyclic: no node is
\* reachable from itself by following children lists.
ChildrenAcyclic ==
    \A k \in Keys : k \notin Descendants(spanTree, {k}, {})

---------------------------------------------------------------------------
\* Both delivery orders of a parent span-start (p, with parent q) and a child
\* span-start (c, with parent p) from the engine state st leave exactly one
\* entry for c in p's children.
BothOrdersLinkOnce(st, p, q, c) ==
    LET parentFirst == mapServerEventToSpanTree(SpanStart(c, p),
                           mapServerEventToSpanTree(SpanStart(p, q), st))
        childFirst  == mapServerEventToSpanTree(SpanStart(p, q),
                           mapServerEventToSpanTree(SpanStart(c, p), st))
    IN  /\ Count(ChildrenOf(parentFirst.spanTree, p), c) = 1
        /\ Count(ChildrenOf(childFirst.spanTree, p), c) = 1

\* C3: for a parent span-start and a child span-start naming it as parent,
\* child-then-parent and parent-then-child, from the same reachable tree, both
\* end with exactly one entry for the child in the parent's children.
ParentResolutionCommutes ==
    \A p \in SpanIds : \A c \in SpanIds \ {p} : \A q \in OptSpanIds :
        BothOrdersLinkOnce(State, p, q, c)

\* C3, from trees in which the parent has no node yet.
ParentResolutionCommutesNewParent ==
    \A p \in SpanIds : \A c \in SpanIds \ {p} : \A q \in OptSpanIds :
        ~Has(spanTree, p) => BothOrdersLinkOnce(State, p, q, c)

\* span-end then span-start for span s (parent p) from the engine state st
\* gives a node with start and end set and isActive = FALSE, the same node as
\* span-start then span-end.
EndFirstSameAsStartFirst(st, s, p) ==
    LET endFirst   == mapServerEventToSpanTree(SpanStart(s, p),
                          mapServerEventToSpanTree(SpanEnd(s, p), st))
        startFirst == mapServerEventToSpanTree(SpanEnd(s, p),
                          mapServerEventToSpanTree(SpanStart(s, p), st))
        node       == endFirst.spanTree.nodes[s]
    IN  /\ node.serverSpan.start = Span(s, p)
        /\ node.serverSpan.end = Span(s, p)
        /\ node.serverSpan.isActive = FALSE
        /\ node = startFirst.spanTree.nodes[s]

\* C4: for any span id, span-end then span-start gives a node with start and
\* end set and isActive = FALSE, identical to the node that span-start then
\* span-end gives.
SpanLifecycleOrderIndependent ==
    \A s \in SpanIds : \A p \in OptSpanIds :
        EndFirstSameAsStartFirst(State, s, p)

\* C4, for a span id that has no node in the tree yet.
SpanLifecycleOrderIndependentNewSpan ==
    \A s \in SpanIds : \A p \in OptSpanIds :
        ~Has(spanTree, s) => EndFirstSameAsStartFirst(State, s, p)

\* C5: for a request and a response with the same id, response-then-request
\* leaves tree[id] with the same request, response and parentSpanId as
\* request-then-response, under a single key.
PairingOrderIndependent ==
    \A i \in RequestIds : \A s \in OptSpanIds :
        LET requestFirst  == mapServerEventToSpanTree(ResponseEvent(i, s),
                                 mapServerEventToSpanTree(RequestEvent(i, s), State))
            responseFirst == mapServerEventToSpanTree(RequestEvent(i, s),
                                 mapServerEventToSpanTree(ResponseEvent(i, s), State))
            n1 == requestFirst.spanTree.nodes[i]
            n2 == responseFirst.spanTree.nodes[i]
        IN  /\ n2.request = RequestSpan(i, s) /\ n2.request = n1.request
            /\ n2.response = ResponseSpan(i, s) /\ n2.response = n1.response
            /\ n2.parentSpanId = s /\ n2.parentSpanId = n1.parentSpanId
            /\ Count(responseFirst.spanTree.keys, i) = 1
            /\ Count(requestFirst.spanTree.keys, i) = 1

\* C5 witness: a response then the request with the same id have been
\* applied after their span's start; the span holds one child with both.
PairedResponseFirst ==
    /\ lastType = "request"
    /\ received = 3
    /\ \E i \in Keys : \E s \in Keys \ {i} :
           /\ Nodes[s].isServerSpan
           /\ Nodes[s].children = <<i>>
           /\ Nodes[i].request = RequestSpan(i, s)
           /\ Nodes[i].response = ResponseSpan(i, s)

\* Applying the events of a list one by one, left to right.
RECURSIVE OneByOne(_, _)
OneByOne(events, st) ==
    IF events = << >> THEN st
    ELSE OneByOne(Tail(events), mapServerEventToSpanTree(Head(events), st))

\* C6: one catch-up event wrapping a list gives the tree that applying the
\* events of the list one by one gives, from every engine state.
CatchUpReplayEquivalence ==
    received + MaxBatch <= MaxEvents =>
        \A b \in Batches :
            mapServerEventToSpanTree(CatchUpEvent(b), State).spanTree
                = OneByOne(b, State).spanTree

\* C6 witness: a catch-up batch of two events has been applied to the empty
\* tree and built a span with its request.
CatchUpApplied ==
    /\ lastType = "catch-up"
    /\ received = 2
    /\ spanTree.keys = <<"a", "c">>
    /\ Nodes["a"].children = <<"c">>
    /\ HasRequest(Nodes["c"])

\* C8: serverSpan.end, request and response stay set once set, and a span
\* that has become inactive never becomes active again.
FieldsOnlyGained ==
    [][\A k \in Keys :
          /\ k \in DOMAIN spanTree'.nodes
          /\ HasEnd(Nodes[k]) => HasEnd(spanTree'.nodes[k])
          /\ HasRequest(Nodes[k]) => HasRequest(spanTree'.nodes[k])
          /\ HasResponse(Nodes[k]) => HasResponse(spanTree'.nodes[k])
          /\ (Nodes[k].serverSpan.present /\ ~Nodes[k].serverSpan.isActive)
                 => ~spanTree'.nodes[k].serverSpan.isActive]_vars

\* C9: a request or response node whose span s is absent from the tree keeps
\* parentSpanId = s, and once the span-start for s has been applied the node
\* is in s's children.  (A node with parentSpanId = s while s has no node got
\* its last request or response while s was absent: nodes are never removed.)
OrphanHttpReattached ==
    [][\A i \in Keys : \A s \in SpanIds \ {i} :
          (/\ HasRequest(Nodes[i]) \/ HasResponse(Nodes[i])
           /\ ~Nodes[i].isServerSpan
           /\ Nodes[i].parentSpanId = s
           /\ ~Has(spanTree, s)
           /\ Has(spanTree', s)
           /\ HasStart(spanTree'.nodes[s]))
              => /\ spanTree'.nodes[i].parentSpanId = s
                 /\ Count(ChildrenOf(spanTree', s), i) >= 1]_vars

\* C10: with reliable correlation ids, every node that holds both a request
\* and a response has request.id = response.id, in every reachable state.
PairedIdsMatch ==
    \A k \in Keys :
        (HasRequest(Nodes[k]) /\ HasResponse(Nodes[k]))
            => Nodes[k].request.id = Nodes[k].response.id

\* C11: the engine is a function of (tree, event) only: an event applied to
\* an independent tree (a new empty tree) gives the same tree whatever events
\* were applied before to this viewer's tree; a span-end applied here never
\* changes what a later span-start produces there.
IndependentTreesIsolated ==
    \A e \in Events :
        mapServerEventToSpanTree(e, [spanTree |-> EmptyTree,
                                     pendingEndEvents |-> pendingEndEvents]).spanTree
            = mapServerEventToSpanTree(e, EmptyState).spanTree

\* C12: tree filters do not mutate the canonical tree: after
\* filterSpansWithoutChildren (filterEmptySpans) the tree passed in has the
\* same keys, fields and children lists as before the call.
FilterLeavesTreeUnchanged ==
    filterSpansWithoutChildren(spanTree).input = spanTree

\* C13: a span-end for a spanId that has no node creates no node and leaves
\* the tree unchanged; the event is buffered under its spanId, stays buffered
\* through every event other than a span-start for that id, and that
\* span-start takes it out of the buffer as the span's end.
SpanEndWithoutNodeIsBuffered ==
    \A s \in SpanIds : \A p \in OptSpanIds :
        ~Has(spanTree, s) =>
            LET buffered == mapServerEventToSpanTree(SpanEnd(s, p), State)
            IN  /\ buffered.spanTree = spanTree
                /\ buffered.pendingEndEvents
                       = MapSet(pendingEndEvents, s, Span(s, p))
                /\ \A e \in Events :
                       LET after == mapServerEventToSpanTree(e, buffered)
                       IN  IF e.type = "span-start" /\ e.data.spanId = s
                           THEN /\ s \notin DOMAIN after.pendingEndEvents
                                /\ after.spanTree.nodes[s].serverSpan.end
                                       = Span(s, p)
                           ELSE s \in DOMAIN after.pendingEndEvents

\* C13 witness: a span-end for span a arrived at the empty tree; the tree is
\* still empty and the event is in the buffer.
SpanEndBuffered ==
    /\ lastType = "span-end"
    /\ received = 1
    /\ spanTree = EmptyTree
    /\ pendingEndEvents = MapSet(EmptyMap, "a", Span("a", None))

\* C14: a span-start or span-end whose spanId is missing leaves the tree and
\* the pending-end buffer unchanged, in every state.
MissingSpanIdIsNoOp ==
    \A p \in OptSpanIds :
        /\ mapServerEventToSpanTree(SpanStart(None, p), State) = State
        /\ mapServerEventToSpanTree(SpanEnd(None, p), State) = State

\* C14 witness: span-start(a) and then a span-end arrived and span a is still
\* active with no end and nothing is buffered: the span-end had no spanId.
SpanEndWithoutIdIgnored ==
    /\ lastType = "span-end"
    /\ received = 2
    /\ spanTree.keys = <<"a">>
    /\ Nodes["a"].serverSpan.isActive
    /\ ~HasEnd(Nodes["a"])
    /\ pendingEndEvents = EmptyMap

\* C15: a request or response whose id is missing is discarded: the tree is
\* left unchanged and no node is created under any key.
MissingRequestIdIsDiscarded ==
    \A s \in OptSpanIds :
        /\ mapServerEventToSpanTree(RequestEvent(None, s), State).spanTree
               = spanTree
        /\ mapServerEventToSpanTree(ResponseEvent(None, s), State).spanTree
               = spanTree

\* C16: span-start(r), span-start(m in r), request and response with the same
\* id in m, span-end(m), span-end(r), applied in that order to an empty tree,
\* give tree[r].children = [node m], tree[m].children holding exactly one
\* node, which has both request and response, and both spans inactive.
NestedHierarchyBuilt ==
    \A r \in TraceIds : \A m \in TraceIds : \A i \in TraceIds :
        (trace = NestedTrace(r, m, i) /\ received = Len(trace)) =>
            /\ ChildrenOf(spanTree, r) = <<m>>
            /\ ChildrenOf(spanTree, m) = <<i>>
            /\ Nodes[i].request = RequestSpan(i, m)
            /\ Nodes[i].response = ResponseSpan(i, m)
            /\ Nodes[r].serverSpan.present /\ ~Nodes[r].serverSpan.isActive
            /\ Nodes[m].serverSpan.present /\ ~Nodes[m].serverSpan.isActive

\* C16 witness: the six events of the nested trace r, m, x have been applied.
NestedTraceApplied ==
    /\ trace = NestedTrace("r", "m", "x")
    /\ received = 6
    /\ lastType = "span-end"
    /\ spanTree.keys = <<"r", "m", "x">>

\* Number of children of `key` that hold the request `id`.
RequestEntries(tree, key, id) ==
    Cardinality({k \in 1..Len(ChildrenOf(tree, key)) :
                    RequestIdOf(tree.nodes[ChildrenOf(tree, key)[k]]) = id})

\* C17: after its parent's span-start, the same child span-start delivered one
\* or more times leaves the parent's children at length 1, and the same
\* request delivered one or more times leaves its containing span's children
\* with one entry for that request id.
RepeatedDeliveryLinksOnce ==
    /\ \A p \in TraceIds : \A c \in TraceIds : \A q \in OptTraceIds :
       \A n \in 1..MaxRepeat :
           (trace = RepeatedChildStart(p, q, c, n) /\ received >= 2) =>
               ChildrenOf(spanTree, p) = <<c>>
    /\ \A s \in TraceIds : \A i \in TraceIds : \A n \in 1..MaxRepeat :
           (trace = RepeatedRequest(s, i, n) /\ received >= 2) =>
               RequestEntries(spanTree, s, i) = 1

\* C17 witness: the child span-start of m has been delivered MaxRepeat times
\* after the span-start of its parent r.
ChildStartRepeated ==
    /\ trace = RepeatedChildStart("r", None, "m", MaxRepeat)
    /\ received = MaxRepeat + 1
    /\ ChildrenOf(spanTree, "r") = <<"m">>

\* C18: with the request for span s delivered before span-start(s) and its
\* response after it, once the response has arrived s's children contain
\* exactly one node for that request id and it holds the request and the
\* response; a child span of s whose span-end arrived before its span-start
\* is inactive and attached to s.
MixedOrderingPairs ==
    \A s \in TraceIds : \A i \in TraceIds : \A c \in TraceIds :
    \A q \in OptTraceIds :
        IsMixedOrder(trace, s, i, c, q) =>
            /\ Arrived(ResponseEvent(i, s)) =>
                   /\ Count(ChildrenOf(spanTree, s), i) = 1
                   /\ RequestEntries(spanTree, s, i) = 1
                   /\ Nodes[i].request = RequestSpan(i, s)
                   /\ Nodes[i].response = ResponseSpan(i, s)
            /\ (Arrived(SpanStart(c, s)) /\ Arrived(SpanStart(s, None))) =>
                   /\ HasEnd(Nodes[c])
                   /\ ~Nodes[c].serverSpan.isActive
                   /\ Count(ChildrenOf(spanTree, s), c) = 1

\* C18 witness: request x, span-end(m), span-start(r), response x and
\* span-start(m in r) have arrived in that order; r holds x and m.
MixedOrderApplied ==
    /\ trace = <<RequestEvent("x", "r"), SpanEnd("m", None), SpanStart("r", None),
                 ResponseEvent("x", "r"), SpanStart("m", "r")>>
    /\ received = 5
    /\ ChildrenOf(spanTree, "r") = <<"x", "m">>

\* C19: when a response for span s has an id that matches no child request
\* of s and s has a child with spanId s that holds a request and no response,
\* the response is attached to that child and s's children are unchanged; a
\* later request with a new id for s is appended as a further child.
ResponseFallbackPairs ==
    \A s \in SpanIds : \A j \in RequestIds :
        (/\ IsServerSpanKey(spanTree, s)
         /\ ExistingChild(spanTree, s, j) = 0
         /\ AvailableChild(spanTree, s, s) # 0) =>
            LET target == ChildrenOf(spanTree, s)[AvailableChild(spanTree, s, s)]
                paired == mapServerEventToSpanTree(ResponseEvent(j, s), State)
            IN  /\ ChildrenOf(paired.spanTree, s) = ChildrenOf(spanTree, s)
                /\ paired.spanTree.nodes[target].response = ResponseSpan(j, s)
                /\ \A k \in RequestIds :
                       ExistingChild(paired.spanTree, s, k) = 0 =>
                           ChildrenOf(mapServerEventToSpanTree(
                                          RequestEvent(k, s), paired).spanTree, s)
                               = Append(ChildrenOf(spanTree, s), k)

\* C20: in every reachable tree every node appears in the children list of at
\* most one parent.
SingleOwnership ==
    \A c \in Keys :
        Cardinality({k \in Keys : Count(Nodes[k].children, c) >= 1}) <= 1

---------------------------------------------------------------------------
\* The relay and its viewers (SpecRelay).

\* C21: once a viewer has cleared its data, every event sequence applied to
\* what the panel then holds gives the tree that the same sequence gives on a
\* freshly started engine.
FullReset ==
    [][\A v \in Viewers :
         clearAlls'[v] = clearAlls[v] + 1 =>
            \A b \in RelayBatches :
               OneByOne(b, trees'[v]).spanTree = OneByOne(b, EmptyState).spanTree]_vars

\* C22: when a viewer has applied the catch-up of a connection, its tree is
\* the fold of that batch over an empty tree.  A panel's first connection
\* finds its tree empty; the case is the catch-up of a later connection.
ReconnectDiscardsTree ==
    [][\A v \in Viewers :
         (v \in clients /\ delivered[v] = 0 /\ delivered'[v] = 1) =>
            trees'[v].spanTree =
               mapServerEventToSpanTree(sent[v][1],
                  [spanTree |-> EmptyTree,
                   pendingEndEvents |-> trees[v].pendingEndEvents]).spanTree]_vars

\* C23: on every connection the first message the relay sent is a catch-up
\* and no later message of the connection is one.
CatchUpFirstAndOnce ==
    \A v \in clients :
       /\ Len(sent[v]) >= 1
       /\ sent[v][1].type = "catch-up"
       /\ \A k \in 2..Len(sent[v]) : sent[v][k].type # "catch-up"

\* A viewer that has handled its catch-up and two live events after it.
LiveEventsAfterCatchUp ==
    \E v \in clients :
       /\ Len(sent[v]) = 3
       /\ delivered[v] = 3

ClearAllEmptiesLog ==
    [][/\ (\E u \in Viewers : clearAlls'[u] = clearAlls[u] - 1 /\ u \in clients')
            => sentEvents' = << >>
       /\ \A v \in Viewers :
            (v \notin clients /\ v \in clients') =>
               sent'[v] = <<CatchUpEvent(SubSeq(broadcasts, cleared + 1,
                                                Len(broadcasts)))>>]_vars

\* A viewer connected after a clear-all and after a later broadcast.
JoinedAfterClearAll ==
    /\ cleared >= 1
    /\ \E v \in clients :
          /\ joined[v].at > cleared
          /\ sent[v][1].data = SubSeq(broadcasts, cleared + 1, joined[v].at)

\* C26: with several viewers connected, when the relay has processed a
\* clear-all every connected viewer holds the fold of the relay's log, which
\* is then the empty tree.
AllViewersCleared ==
    [][(/\ Cardinality(clients) > 1
        /\ \E u \in Viewers : clearAlls'[u] = clearAlls[u] - 1 /\ u \in clients') =>
           \A v \in clients' :
              trees'[v].spanTree = Reduce(sentEvents', EmptyState).spanTree]_vars

---------------------------------------------------------------------------
\* The waterfall chart's rows (SpecChart).

\* Two timings share a point of their [start, end) ranges.
ShareAPoint(a, b) ==
    \E t \in Times : a.start <= t /\ t < a.end /\ b.start <= t /\ t < b.end

\* C27: in the layout computed no two timings of the same row overlap in
\* [start, end).
RowsNeverOverlap ==
    \A i, j \in 1..Len(positioned) :
       (i # j /\ positioned[i].row = positioned[j].row) =>
          ~ShareAPoint(positioned[i], positioned[j])

\* A layout of overlapping timings that uses some row twice.
RowReused ==
    /\ \E i, j \in 1..Len(positioned) : i # j /\ positioned[i].row = positioned[j].row
    /\ \E i, j \in 1..Len(positioned) :
          i # j /\ ShareAPoint(positioned[i], positioned[j])

\* The largest number of timings whose [start, end) ranges hold one point.
MaxOverlap(d) ==
    Max({Cardinality({i \in 1..Len(d) : d[i].start <= t /\ t < d[i].end}) : t \in Times})

\* C28 as stated: for every list of timings the number of rows used is the
\* largest number of timings that overlap at one point in time.
RowCountIsMaxOverlap ==
    positioned # << >> => totalRows(positioned) = MaxOverlap(data)

\* C28: for every list of timings with start < end the number of rows used is
\* the largest number of timings that overlap at one point in time.
RowCountIsMaxOverlapOfProperTimings ==
    (positioned # << >> /\ \A i \in 1..Len(data) : data[i].start < data[i].end) =>
        totalRows(positioned) = MaxOverlap(data)

\* Three proper timings laid out in two rows.
ProperTimingsPacked ==
    /\ Len(positioned) = 3
    /\ \A i \in 1..Len(data) : data[i].start < data[i].end
    /\ totalRows(positioned) = 2

---------------------------------------------------------------------------
\* What filterSpansWithoutChildren keeps.

\* The node under `key` has a descendant that carries a request or a response.
HasDataBelow(tree, key) ==
    \E d \in Descendants(tree, {key}, {}) :
       HasRequest(tree.nodes[d]) \/ HasResponse(tree.nodes[d])

\* C29: for every reachable tree the filter returns, and every node with a
\* descendant that carries a request or a response is in the returned map
\* and is still in the children list of every node that had it as a child.
FilterKeepsNonEmptyAncestors ==
    LET filtered == filterSpansWithoutChildren(spanTree)
    IN  \A k \in Keys :
           HasDataBelow(spanTree, k) =>
              /\ ~filtered.threw
              /\ Has(filtered.output, k)
              /\ \A p \in Keys :
                    Count(Nodes[p].children, k) > 0 =>
                       Count(filtered.input.nodes[p].children, k) > 0

\* C30: every node of the returned tree, in the returned map and in the
\* children lists below it, has children, a request or a response.
FilterOutputHasNoEmptyNode ==
    LET filtered == filterSpansWithoutChildren(spanTree)
        roots    == DOMAIN filtered.output.nodes
    IN  ~filtered.threw =>
           \A k \in roots \cup Descendants(filtered.input, roots, {}) :
              HasContent(filtered.input.nodes[k])


---------------------------------------------------------------------------
\* The view filters of the panel.  A filter takes a tree (keys in insertion
\* order, node objects by key) and returns a new map.

\* Mutant: the entries of the server spans are the ones kept.
KeepsServerSpans(tree) ==
    LET IsServerSpan(key) == tree.nodes[key].isServerSpan
        kept == SelectSeq(tree.keys, IsServerSpan)
    IN  [keys  |-> kept,
         nodes |-> [k \in {kept[n] : n \in 1..Len(kept)} |-> tree.nodes[k]]]

\* Object.fromEntries(Object.entries(spanTree).filter(([, value]) =>
\*     !value.isServerSpan))
filterServerSpans(tree) ==
    LET NotServerSpan(key) == ~tree.nodes[key].isServerSpan
        kept == SelectSeq(tree.keys, NotServerSpan)
    IN  [keys  |-> kept,
         nodes |-> [k \in {kept[n] : n \in 1..Len(kept)} |-> tree.nodes[k]]]

\* The entries of a sequence of keys, as a set.
Range(seq) == {seq[n] : n \in 1..Len(seq)}

\* C37: filterServerSpans returns exactly the entries of the tree whose node
\* is not a server span, in the tree's order, each under its own key and with
\* its node unchanged.
ServerSpansFilteredOut ==
    LET out == filterServerSpans(spanTree)
    IN  /\ Range(out.keys) = {k \in Keys : ~Nodes[k].isServerSpan}
        /\ DOMAIN out.nodes = Range(out.keys)
        /\ \A k \in Range(out.keys) : out.nodes[k] = Nodes[k]
        /\ \A i, j \in 1..Len(out.keys) :
              i < j => /\ out.keys[i] # out.keys[j]
                       /\ PositionOf(spanTree.keys, out.keys[i])
                             < PositionOf(spanTree.keys, out.keys[j])

\* A tree with two server spans and a request between them in key order.
ServerSpansAroundRequest ==
    \E i, j, k \in 1..Len(spanTree.keys) :
        /\ i < j /\ j < k
        /\ Nodes[spanTree.keys[i]].isServerSpan
        /\ ~Nodes[spanTree.keys[j]].isServerSpan
        /\ Nodes[spanTree.keys[k]].isServerSpan


---------------------------------------------------------------------------
\* filterInBetweenSpans.  The output map holds copies: an entry records the
\* tree node it was spread from (`of`), the parentSpanId of the copy and the
\* children list of the copy.  A copied leaf in a children list keeps the
\* leaf's own children list (keys of tree nodes).  A recursion that would
\* never end is cut at the depth no path without a repeated node can reach,
\* and reported as threw.

\* findLeafNodes(node) at call depth `depth`, and children.flatMap(
\* findLeafNodes) from position i on.
RECURSIVE findLeafNodes(_, _, _)
RECURSIVE FlatMapLeaves(_, _, _, _)
findLeafNodes(nodes, key, depth) ==
    IF depth > Cardinality(DOMAIN nodes)
    THEN [leaves |-> << >>, threw |-> TRUE]
    ELSE IF HasRequest(nodes[key]) \/ HasResponse(nodes[key])
    THEN [leaves |-> <<key>>, threw |-> FALSE]
    ELSE IF Len(nodes[key].children) = 0
    THEN [leaves |-> <<key>>, threw |-> FALSE]
    ELSE FlatMapLeaves(nodes, nodes[key].children, 1, depth + 1)

FlatMapLeaves(nodes, children, i, depth) ==
    IF i > Len(children)
    THEN [leaves |-> << >>, threw |-> FALSE]
    ELSE LET first == findLeafNodes(nodes, children[i], depth)
         IN  IF first.threw
             THEN first
             ELSE LET rest == FlatMapLeaves(nodes, children, i + 1, depth)
                  IN  [leaves |-> first.leaves \o rest.leaves,
                       threw  |-> rest.threw]

\* Object.values(spanTree).find((n) => n.spanId === spanId)
FindBySpanId(tree, spanId) ==
    LET hits == {n \in 1..Len(tree.keys) :
                    tree.nodes[tree.keys[n]].spanId = spanId}
    IN  IF hits = {} \/ spanId = None
        THEN None
        ELSE tree.keys[CHOOSE n \in hits : \A m \in hits : n <= m]

\* getTopAncestor(node) at call depth `depth`
RECURSIVE getTopAncestor(_, _, _)
getTopAncestor(tree, key, depth) ==
    LET node   == tree.nodes[key]
        parent == FindBySpanId(tree, node.parentSpanId)
    IN  IF depth > Len(tree.keys) + 1
        THEN [node |-> key, threw |-> TRUE]
        ELSE IF node.parentSpanId = None \/ parent = None
        THEN [node |-> key, threw |-> FALSE]
        ELSE IF tree.nodes[parent].isServerSpan
        THEN getTopAncestor(tree, parent, depth + 1)
        ELSE [node |-> parent, threw |-> FALSE]

\* topAncestorToLeaves.get(id).add(leaf), creating the Set on first use
AddLeaf(groups, id, leaf) ==
    IF \E g \in 1..Len(groups) : groups[g].id = id
    THEN [g \in 1..Len(groups) |->
             IF groups[g].id = id /\ leaf \notin Range(groups[g].leaves)
             THEN [groups[g] EXCEPT !.leaves = Append(@, leaf)]
             ELSE groups[g]]
    ELSE Append(groups, [id |-> id, leaves |-> <<leaf>>])

\* The loop that fills topAncestorToLeaves, from leaf i on.
RECURSIVE GroupLeaves(_, _, _, _)
GroupLeaves(tree, leaves, i, groups) ==
    IF i > Len(leaves)
    THEN [groups |-> groups, threw |-> FALSE]
    ELSE LET top == getTopAncestor(tree, leaves[i], 1)
             id  == tree.nodes[top.node].spanId
         IN  IF top.threw
             THEN [groups |-> groups, threw |-> TRUE]
             ELSE IF id = None
             THEN GroupLeaves(tree, leaves, i + 1, groups)
             ELSE GroupLeaves(tree, leaves, i + 1,
                              AddLeaf(groups, id, leaves[i]))

\* { ...leaf, parentSpanId: topAncestorId }
LeafCopy(tree, leaf, topAncestorId) ==
    [of           |-> leaf,
     parentSpanId |-> topAncestorId,
     children     |-> tree.nodes[leaf].children]

\* { ...originalNode, parentSpanId, children } stored under its key
NodeCopy(key, parentSpanId, children) ==
    [of |-> key, parentSpanId |-> parentSpanId, children |-> children]

\* The inner loop that adds the leaves of one top ancestor as entries.
RECURSIVE PutLeaves(_, _, _, _, _)
PutLeaves(tree, filtered, topAncestorId, leaves, i) ==
    IF i > Len(leaves)
    THEN filtered
    ELSE LET id == RequestIdOf(tree.nodes[leaves[i]])
         IN  IF id # None /\ ~Has(filtered, id) /\ id \in Range(tree.keys)
             THEN PutLeaves(tree,
                            SetNode(filtered, id,
                                    NodeCopy(id, topAncestorId, << >>)),
                            topAncestorId, leaves, i + 1)
             ELSE PutLeaves(tree, filtered, topAncestorId, leaves, i + 1)

\* The loop over topAncestorToLeaves, from entry g on.
RECURSIVE PutTopAncestors(_, _, _, _)
PutTopAncestors(tree, groups, g, filtered) ==
    IF g > Len(groups)
    THEN filtered
    ELSE LET id     == groups[g].id
             leaves == groups[g].leaves
         IN  IF id \notin Range(tree.keys)
             THEN PutTopAncestors(tree, groups, g + 1, filtered)
             ELSE PutTopAncestors(tree, groups, g + 1,
                      PutLeaves(tree,
                          SetNode(filtered, id,
                              NodeCopy(id, tree.nodes[id].parentSpanId,
                                  [n \in 1..Len(leaves) |->
                                      LeafCopy(tree, leaves[n], id)])),
                          id, leaves, 1))

\* The loop that adds standalone leaves, from leaf i on.
RECURSIVE PutStandalone(_, _, _, _)
PutStandalone(tree, leaves, i, filtered) ==
    IF i > Len(leaves)
    THEN filtered
    ELSE LET leaf   == leaves[i]
             spanId == tree.nodes[leaf].spanId
         IN  IF /\ spanId # None
                /\ getTopAncestor(tree, leaf, 1).node = leaf
                /\ ~Has(filtered, spanId)
                /\ spanId \in Range(tree.keys)
             THEN PutStandalone(tree, leaves, i + 1,
                      SetNode(filtered, spanId,
                          NodeCopy(spanId, tree.nodes[spanId].parentSpanId,
                                   << >>)))
             ELSE PutStandalone(tree, leaves, i + 1, filtered)

\* output: the returned map; threw: the call ended in a RangeError.
filterInBetweenSpans(tree) ==
    LET allLeaves == FlatMapLeaves(tree.nodes, tree.keys, 1, 1)
        grouped   == GroupLeaves(tree, allLeaves.leaves, 1, << >>)
    IN  IF allLeaves.threw \/ grouped.threw
        THEN [output |-> EmptyTree, threw |-> TRUE]
        ELSE [output |-> PutStandalone(tree, allLeaves.leaves, 1,
                             PutTopAncestors(tree, grouped.groups, 1,
                                             EmptyTree)),
              threw  |-> FALSE]

\* The keys listed in the children list of an output entry.
OutputChildren(out, key) ==
    {out.nodes[key].children[n].of : n \in 1..Len(out.nodes[key].children)}


\* The tree is a chain of nested server spans from the root r down to s,
\* each span holding the next one as its only child, and the other entries
\* are requests parented to s and listed in s's children.
IsChainWithLeaves(tree, r, s) ==
    LET spans  == {k \in DOMAIN tree.nodes : tree.nodes[k].isServerSpan}
        leaves == (DOMAIN tree.nodes) \ spans
    IN  /\ r \in spans /\ s \in spans
        /\ tree.nodes[r].parentSpanId = None
        /\ spans \subseteq {r} \cup Descendants(tree, {r}, {})
        /\ \A k \in spans : k \notin Descendants(tree, {k}, {})
        /\ \A k \in spans \ {r} :
              /\ tree.nodes[k].parentSpanId \in spans
              /\ k \in Range(tree.nodes[tree.nodes[k].parentSpanId].children)
        /\ \A k \in spans \ {s} :
              /\ Len(tree.nodes[k].children) = 1
              /\ tree.nodes[k].children[1] \in spans
        /\ leaves # {}
        /\ Range(tree.nodes[s].children) = leaves
        /\ \A l \in leaves :
              /\ HasRequest(tree.nodes[l])
              /\ tree.nodes[l].parentSpanId = s
              /\ tree.nodes[l].children = << >>

\* The condensed output of a chain from r: r is an entry whose children are
\* exactly the request leaves, each with no children, and no other span of
\* the chain is an entry or a child.
IsCondensedChain(tree, out, r) ==
    LET spans  == {k \in DOMAIN tree.nodes : tree.nodes[k].isServerSpan}
        leaves == (DOMAIN tree.nodes) \ spans
    IN  /\ Has(out, r)
        /\ OutputChildren(out, r) = leaves
        /\ \A n \in 1..Len(out.nodes[r].children) :
              out.nodes[r].children[n].children = << >>
        /\ \A k \in spans \ {r} :
              /\ ~Has(out, k)
              /\ \A e \in DOMAIN out.nodes : k \notin OutputChildren(out, e)

\* C31: whenever the tree is a chain of nested server spans from a root to a
\* span s with request leaves parented to s, filterInBetweenSpans returns the
\* root with exactly those leaves as children, each with no children, and no
\* other span of the chain as an entry or a child.
ChainIsCondensed ==
    \A r, s \in Keys :
        IsChainWithLeaves(spanTree, r, s) =>
            LET run == filterInBetweenSpans(spanTree)
            IN  ~run.threw /\ IsCondensedChain(spanTree, run.output, r)

\* The same for the trees in which every request entry comes after the entry
\* of the span that contains it.
ChainInKeyOrderIsCondensed ==
    \A r, s \in Keys :
        /\ IsChainWithLeaves(spanTree, r, s)
        /\ \A l \in Keys : ~Nodes[l].isServerSpan =>
              PositionOf(spanTree.keys, s) < PositionOf(spanTree.keys, l)
        => LET run == filterInBetweenSpans(spanTree)
           IN  ~run.threw /\ IsCondensedChain(spanTree, run.output, r)

\* A two-span chain with a request leaf has been built.
TwoSpanChainBuilt ==
    \E r, s \in Keys : r # s /\ IsChainWithLeaves(spanTree, r, s)


\* The node `key` appears in the output map: as an entry or in the children
\* list of an entry.
AppearsIn(out, key) ==
    \/ Has(out, key) /\ out.nodes[key].of = key
    \/ \E e \in DOMAIN out.nodes : key \in OutputChildren(out, e)

\* C32: every node of a reachable tree that carries a request or a response
\* appears in the output of filterInBetweenSpans, as an entry or as a child of
\* an entry.
LeavesPreserved ==
    LET run == filterInBetweenSpans(spanTree)
    IN  \A k \in Keys :
            HasRequest(Nodes[k]) \/ HasResponse(Nodes[k])
                => ~run.threw /\ AppearsIn(run.output, k)

\* The same for the leaves whose spanId is the key of another entry of the
\* tree.
LeavesOfArrivedSpansPreserved ==
    LET run == filterInBetweenSpans(spanTree)
    IN  \A k \in Keys :
            /\ HasRequest(Nodes[k]) \/ HasResponse(Nodes[k])
            /\ Nodes[k].spanId \in Keys \ {k}
            => ~run.threw /\ AppearsIn(run.output, k)


\* findLeafNodes(node) returns the node itself.
IsLeaf(tree, key) ==
    \/ HasRequest(tree.nodes[key]) \/ HasResponse(tree.nodes[key])
    \/ Len(tree.nodes[key].children) = 0

\* C33: a leaf of a reachable tree whose upward walk ends at the leaf itself
\* is an entry of the output of filterInBetweenSpans with an empty children
\* list, and is not in its own children list.
StandaloneLeafStaysRoot ==
    LET run == filterInBetweenSpans(spanTree)
    IN  \A k \in Keys :
            /\ IsLeaf(spanTree, k)
            /\ ~getTopAncestor(spanTree, k, 1).threw
            /\ getTopAncestor(spanTree, k, 1).node = k
            => /\ ~run.threw
               /\ Has(run.output, k)
               /\ run.output.nodes[k].children = << >>
               /\ k \notin OutputChildren(run.output, k)


---------------------------------------------------------------------------
\* filterSpansByUrl.  A string is a sequence of characters.

\* Longest filter text typed into the panel.
MaxNeedle == 2

\* The characters a filter text is made of.
NeedleChars == {"o", "O", "r", " "}

Needles == SeqsUpTo(NeedleChars, MaxNeedle)

\* start.id of the span-start payload with this id (the span's name).
SpanName(id) ==
    CASE id = "r" -> <<"R", "o", "o", "t">>
      [] id = "m" -> <<"m", "i", "d">>
      [] id = "x" -> <<"G", "E", "T", " ", "/", "x">>
      [] id = "y" -> <<"R", "e", "n", "d", "e", "r">>
      [] OTHER    -> << >>

\* request.url of the request payload with this id.
RequestUrl(id) ==
    CASE id = "r" -> <<"/", "O", "r", "d", "e", "r", "s">>
      [] id = "m" -> <<"/", "M", "o", "r", "e">>
      [] id = "x" -> <<"/", "o", "r", "d", "e", "r", "s", "/", "1">>
      [] id = "y" -> <<"/", "u", "s", "e", "r", "s">>
      [] OTHER    -> << >>

\* String.prototype.toLowerCase, on one character and on a string
LowerChar(c) ==
    CASE c = "E" -> "e"
      [] c = "G" -> "g"
      [] c = "M" -> "m"
      [] c = "O" -> "o"
      [] c = "R" -> "r"
      [] c = "T" -> "t"
      [] OTHER   -> c

toLowerCase(text) == [n \in 1..Len(text) |-> LowerChar(text[n])]

\* String.prototype.trim
RECURSIVE trim(_)
trim(text) ==
    IF text = << >> THEN text
    ELSE IF Head(text) = " " THEN trim(Tail(text))
    ELSE IF text[Len(text)] = " " THEN trim(SubSeq(text, 1, Len(text) - 1))
    ELSE text

\* String.prototype.includes
includes(text, needle) ==
    \E k \in 0..(Len(text) - Len(needle)) :
        \A j \in 1..Len(needle) : text[k + j] = needle[j]

\* node.serverSpan?.start?.id.toLowerCase().includes(filterLower) ||
\* node.request?.url?.toLowerCase().includes(filterLower)
OwnTextMatches(node, filterLower) ==
    \/ /\ HasStart(node)
       /\ includes(toLowerCase(SpanName(node.serverSpan.start.id)), filterLower)
    \/ /\ HasRequest(node)
       /\ includes(toLowerCase(RequestUrl(node.request.id)), filterLower)

\* nodeMatchesFilter(node)
nodeMatchesFilter(tree, key, filterLower) ==
    \/ OwnTextMatches(tree.nodes[key], filterLower)
    \/ \E n \in 1..Len(tree.nodes[key].children) :
          OwnTextMatches(tree.nodes[tree.nodes[key].children[n]], filterLower)

\* ancestors.add / nodesToInclude.add on a Set kept in insertion order
SetAdd(seq, e) == IF e \in Range(seq) THEN seq ELSE Append(seq, e)

RECURSIVE SetAddAll(_, _)
SetAddAll(seq, more) ==
    IF more = << >> THEN seq
    ELSE SetAddAll(SetAdd(seq, Head(more)), Tail(more))

\* getAncestorIds(nodeId, ancestors) at call depth `depth`
RECURSIVE getAncestorIds(_, _, _, _)
getAncestorIds(tree, nodeId, ancestors, depth) ==
    IF depth > Len(tree.keys) + 1
    THEN [ancestors |-> ancestors, threw |-> TRUE]
    ELSE IF nodeId \notin Range(tree.keys)
    THEN [ancestors |-> ancestors, threw |-> FALSE]
    ELSE IF tree.nodes[nodeId].parentSpanId = None
    THEN [ancestors |-> ancestors, threw |-> FALSE]
    ELSE getAncestorIds(tree, tree.nodes[nodeId].parentSpanId,
                        SetAdd(ancestors, tree.nodes[nodeId].parentSpanId),
                        depth + 1)

\* spanIdToNodeIdMap.get(spanId): the last entry of the tree with this spanId
SpanIdToNodeId(tree, spanId) ==
    LET hits == {n \in 1..Len(tree.keys) :
                    tree.nodes[tree.keys[n]].spanId = spanId}
    IN  IF hits = {} \/ spanId = None
        THEN None
        ELSE tree.keys[CHOOSE n \in hits : \A m \in hits : m <= n]

\* Step 1: the matching node ids, in entry order.
MatchingNodeIds(tree, filterLower) ==
    LET Matches(key) == nodeMatchesFilter(tree, key, filterLower)
    IN  SelectSeq(tree.keys, Matches)

\* Step 2: the matching nodes and their ancestors, from matching id i on.
RECURSIVE AddMatchesAndAncestors(_, _, _, _)
AddMatchesAndAncestors(tree, matching, i, included) ==
    IF i > Len(matching)
    THEN [included |-> included, threw |-> FALSE]
    ELSE LET walk == getAncestorIds(tree, matching[i], << >>, 1)
         IN  IF walk.threw
             THEN [included |-> included, threw |-> TRUE]
             ELSE AddMatchesAndAncestors(tree, matching, i + 1,
                      SetAddAll(SetAdd(included, matching[i]), walk.ancestors))

\* node.children.some(child => ... nodesToInclude.has(childNodeId))
HasIncludedChild(tree, key, included) ==
    \E n \in 1..Len(tree.nodes[key].children) :
        LET childNodeId ==
                SpanIdToNodeId(tree, tree.nodes[tree.nodes[key].children[n]].spanId)
        IN  childNodeId # None /\ childNodeId \in Range(included)

\* Step 3: one pass of the for loop inside while (changed), from entry i on.
RECURSIVE ConnectPass(_, _, _, _)
ConnectPass(tree, i, included, changed) ==
    IF i > Len(tree.keys)
    THEN [included |-> included, changed |-> changed]
    ELSE IF /\ tree.keys[i] \notin Range(included)
            /\ HasIncludedChild(tree, tree.keys[i], included)
    THEN ConnectPass(tree, i + 1, Append(included, tree.keys[i]), TRUE)
    ELSE ConnectPass(tree, i + 1, included, changed)

\* while (changed) { ... }
RECURSIVE ConnectAll(_, _)
ConnectAll(tree, included) ==
    LET pass == ConnectPass(tree, 1, included, FALSE)
    IN  IF pass.changed THEN ConnectAll(tree, pass.included) ELSE included

\* The children pushed into nodeCopy.children, from child n on.
RECURSIVE IncludedChildren(_, _, _, _)
IncludedChildren(tree, children, n, included) ==
    IF n > Len(children)
    THEN << >>
    ELSE LET childNodeId ==
                 SpanIdToNodeId(tree, tree.nodes[children[n]].spanId)
             rest == IncludedChildren(tree, children, n + 1, included)
         IN  IF childNodeId # None /\ childNodeId \in Range(included)
             THEN <<childNodeId>> \o rest
             ELSE rest

\* Step 4: the filtered map.  An entry records the tree node it was spread
\* from (`of`) and its children list, whose elements are nodes of the tree.
BuildFiltered(tree, included) ==
    LET InTree(id) == id \in Range(tree.keys)
        kept       == SelectSeq(included, InTree)
    IN  [keys  |-> kept,
         nodes |-> [k \in Range(kept) |->
                       [of       |-> k,
                        children |-> IncludedChildren(tree,
                                         tree.nodes[k].children, 1, included)]]]

\* `return spanTree`: every entry with its own children list.
Unfiltered(tree) ==
    [keys  |-> tree.keys,
     nodes |-> [k \in Range(tree.keys) |->
                   [of |-> k, children |-> tree.nodes[k].children]]]

\* Steps 2 to 4.
FilterMatching(tree, matching) ==
    LET base == AddMatchesAndAncestors(tree, matching, 1, << >>)
    IN  IF base.threw
        THEN [output |-> EmptyTree, same |-> FALSE, threw |-> TRUE]
        ELSE [output |-> BuildFiltered(tree, ConnectAll(tree, base.included)),
              same   |-> FALSE,
              threw  |-> FALSE]

\* Mutant: with no match the tree itself is returned.
ReturnsTreeWhenNothingMatches(tree, urlFilter) ==
    LET filterLower == trim(toLowerCase(urlFilter))
        matching    == MatchingNodeIds(tree, filterLower)
    IN  IF urlFilter = << >> \/ filterLower = << >> \/ matching = << >>
        THEN [output |-> Unfiltered(tree), same |-> TRUE, threw |-> FALSE]
        ELSE FilterMatching(tree, matching)

\* output: the returned map; same: the argument itself was returned; threw:
\* the call ended in a RangeError.
filterSpansByUrl(tree, urlFilter) ==
    LET filterLower == trim(toLowerCase(urlFilter))
        matching    == MatchingNodeIds(tree, filterLower)
    IN  IF urlFilter = << >> \/ filterLower = << >>
        THEN [output |-> Unfiltered(tree), same |-> TRUE, threw |-> FALSE]
        ELSE IF matching = << >>
        THEN [output |-> EmptyTree, same |-> FALSE, threw |-> FALSE]
        ELSE FilterMatching(tree, matching)


\* The text contains the needle, letter case ignored.
ContainsIgnoringCase(text, needle) ==
    \E k \in 0..(Len(text) - Len(needle)) :
        \A j \in 1..Len(needle) : LowerChar(text[k + j]) = LowerChar(needle[j])

\* The node's span name or request URL contains the needle.
NameOrUrlContains(node, needle) ==
    \/ HasStart(node)
          /\ ContainsIgnoringCase(SpanName(node.serverSpan.start.id), needle)
    \/ HasRequest(node)
          /\ ContainsIgnoringCase(RequestUrl(node.request.id), needle)

\* The node, or one of its direct children, has a name or URL containing the
\* needle.
IsMatch(tree, key, needle) ==
    \/ NameOrUrlContains(tree.nodes[key], needle)
    \/ \E c \in Range(tree.nodes[key].children) :
          NameOrUrlContains(tree.nodes[c], needle)

\* Entries of the tree reached from the frontier by following parentSpanId
\* one or more times.
RECURSIVE Ancestors(_, _, _)
Ancestors(tree, frontier, seen) ==
    LET parents == {tree.nodes[k].parentSpanId : k \in frontier}
                       \cap DOMAIN tree.nodes
        new     == parents \ seen
    IN  IF new = {} THEN seen
        ELSE Ancestors(tree, new, seen \cup new)

\* A filter text with something left after trimming.
NonBlank(needle) == \E n \in 1..Len(needle) : needle[n] # " "

\* C34: for every non-blank needle, every node of a reachable tree whose own
\* name or URL, or a direct child's, contains the needle with letter case
\* ignored is an entry of the output of filterSpansByUrl, and so is every
\* entry reached from it by following parentSpanId.
UrlFilterKeepsMatchesAndAncestors ==
    \A needle \in Needles :
        NonBlank(needle) =>
            LET run == filterSpansByUrl(spanTree, needle)
            IN  \A k \in Keys :
                    IsMatch(spanTree, k, needle) =>
                        /\ ~run.threw
                        /\ {k} \cup Ancestors(spanTree, {k}, {})
                               \subseteq Range(run.output.keys)

\* No entry of the tree is reached from itself by following parentSpanId.
ParentsAcyclic ==
    \A k \in Keys : k \notin Ancestors(spanTree, {k}, {})

\* The same for the trees whose parent relation has no cycle.
UrlFilterKeepsMatchesAndAncestorsOfAcyclic ==
    ParentsAcyclic => UrlFilterKeepsMatchesAndAncestors

\* A root, a span in it and a request in that span whose URL holds "or", with
\* all three kept by the filter text "OR".
OrdersCascadeKept ==
    /\ Len(spanTree.keys) = 3
    /\ IsChainWithLeaves(spanTree, spanTree.keys[1], spanTree.keys[2])
    /\ IsMatch(spanTree, spanTree.keys[3], <<"O", "r">>)
    /\ ~NameOrUrlContains(Nodes[spanTree.keys[1]], <<"O", "r">>)
    /\ Range(filterSpansByUrl(spanTree, <<"O", "r">>).output.keys) = Keys


\* No node of the tree matches the needle once trimmed.
NothingMatches(tree, needle) ==
    \A k \in DOMAIN tree.nodes : ~IsMatch(tree, k, trim(needle))

\* C35: for every non-blank needle that no node of a reachable tree matches,
\* filterSpansByUrl returns the empty tree and not the tree it was given.
NoMatchGivesEmptyTree ==
    \A needle \in Needles :
        NonBlank(needle) /\ NothingMatches(spanTree, needle) =>
            LET run == filterSpansByUrl(spanTree, needle)
            IN  /\ ~run.threw
                /\ ~run.same
                /\ run.output = EmptyTree

\* A tree of three entries that one needle matches and another does not.
SomeNeedleMatchesNothing ==
    /\ Len(spanTree.keys) = 3
    /\ \E needle \in Needles :
          NonBlank(needle) /\ NothingMatches(spanTree, needle)
    /\ \E needle \in Needles :
          NonBlank(needle) /\ ~NothingMatches(spanTree, needle)


\* The entries of a children list that are entries of the output, in order.
RECURSIVE OriginalChildrenIn(_, _)
OriginalChildrenIn(out, children) ==
    IF children = << >> THEN << >>
    ELSE IF Head(children) \in Range(out.keys)
    THEN <<Head(children)>> \o OriginalChildrenIn(out, Tail(children))
    ELSE OriginalChildrenIn(out, Tail(children))

\* C36: for every non-blank needle on which filterSpansByUrl returns, each
\* entry of the output is the tree's node of that key, and its children are
\* exactly the node's own children that are entries of the output, the same
\* nodes in the same order.
UrlFilterPreservesChildren ==
    \A needle \in Needles :
        NonBlank(needle) =>
            LET run == filterSpansByUrl(spanTree, needle)
            IN  ~run.threw =>
                    \A k \in Range(run.output.keys) :
                        /\ run.output.nodes[k].of = k
                        /\ run.output.nodes[k].children
                               = OriginalChildrenIn(run.output,
                                                    Nodes[k].children)


---------------------------------------------------------------------------
\* The panel with the Condensed view selected: events of a trace arrive, and
\* between them the panel renders and recomputes filteredSpans from its
\* spans state.

\* filteredSpans = filterInBetweenSpans(filterSpansWithoutChildren(spans)):
\* filterSpansWithoutChildren assigns to node.children of the node objects of
\* spans; filterInBetweenSpans builds copies and assigns to none of them.
RecomputeCondensedView ==
    /\ \E run \in {filterSpansWithoutChildren(spanTree)} :
          spanTree' = run.input
    /\ UNCHANGED <<pendingEndEvents, received, lastType, undelivered, trace>>
    /\ UNCHANGED <<relayVars, chartVars, shellVars>>

NextPanel ==
    \/ DeliverNextSpanStart
    \/ DeliverNextSpanEnd
    \/ DeliverNextRequest
    \/ DeliverNextResponse
    \/ RecomputeCondensedView

SpecPanel == InitTrace /\ [][NextPanel]_vars

\* C38: whatever renders recomputed the Condensed view between the events,
\* the panel's tree is the tree the engine builds from the events that have
\* arrived, applied with no filter run in between.
FilterRunsLeaveTreeAlone ==
    spanTree = OneByOne(SubSeq(trace, 1, received), EmptyState).spanTree


---------------------------------------------------------------------------
\* The useWS hook of one App: its effect, connect, the socket's handlers, the
\* reconnect timer and the effect's cleanup.

\* Effect runs of the hook: the mount and the url changes after it.
MaxEffects == 2

\* WebSockets the hook creates.
MaxSockets == 3

\* No event has reached the panel.
ViewerIdle ==
    /\ spanTree = EmptyTree
    /\ pendingEndEvents = EmptyMap
    /\ received = 0
    /\ lastType = None
    /\ undelivered = {}
    /\ trace = << >>

\* connect() of effect run e
connect(h, e) ==
    [h EXCEPT !.status  = "connecting",
              !.sockets = Append(@, [effect |-> e, readyState |-> "connecting"]),
              !.wsRef   = Len(h.sockets) + 1]

\* wsRef.current?.close()
CloseCurrent(h) ==
    IF h.wsRef # 0 /\ h.sockets[h.wsRef].readyState \in {"connecting", "open"}
    THEN [h EXCEPT !.sockets[h.wsRef].readyState = "closing"]
    ELSE h

\* The function the effect run e returns.
cleanup(h, e) ==
    [CloseCurrent(h) EXCEPT
        !.reconnectTimer[e] = IF @ = "pending" THEN "cleared" ELSE @,
        !.mounted = FALSE]

\* The body of the effect: a new reconnectTimer variable, then connect().
RunEffect(h) ==
    connect([h EXCEPT !.reconnectTimer = Append(@, "null"),
                      !.mounted = TRUE],
            Len(h.reconnectTimer) + 1)

\* The effect run that has not been cleaned up (0 if there is none).
CurrentEffect(h) == IF h.mounted THEN Len(h.reconnectTimer) ELSE 0

InitWS ==
    /\ ViewerIdle
    /\ RelayIdle
    /\ ChartIdle
    /\ hook = RunEffect(HookUnmounted)
    /\ devtools = DevtoolsClosed

\* The url changes: React runs the cleanup of the last effect run and then
\* the effect again.
ChangeUrl ==
    /\ hook.mounted
    /\ Len(hook.reconnectTimer) < MaxEffects
    /\ Len(hook.sockets) < MaxSockets
    /\ hook' = RunEffect(cleanup(hook, CurrentEffect(hook)))
    /\ UNCHANGED <<viewerVars, relayVars, chartVars, devtools>>

\* The App unmounts: React runs the cleanup of the last effect run.
Unmount ==
    /\ hook.mounted
    /\ hook' = cleanup(hook, CurrentEffect(hook))
    /\ UNCHANGED <<viewerVars, relayVars, chartVars, devtools>>

\* ws.onopen
OnOpen(i) ==
    /\ hook.sockets[i].readyState = "connecting"
    /\ hook' = [hook EXCEPT !.sockets[i].readyState = "open",
                            !.status = "connected"]
    /\ UNCHANGED <<viewerVars, relayVars, chartVars, devtools>>

\* ws.onerror
OnError(i) ==
    /\ hook.sockets[i].readyState \in {"connecting", "open"}
    /\ hook' = [hook EXCEPT !.status = "error"]
    /\ UNCHANGED <<viewerVars, relayVars, chartVars, devtools>>

\* ws.onclose: the close event of a socket that failed, was closed by the
\* server or was closed with close().
OnClose(i) ==
    /\ hook.sockets[i].readyState # "closed"
    /\ hook' = [hook EXCEPT
                   !.sockets[i].readyState = "closed",
                   !.status = "disconnected",
                   !.reconnectTimer[hook.sockets[i].effect] = "pending"]
    /\ UNCHANGED <<viewerVars, relayVars, chartVars, devtools>>

\* The timer of setTimeout(connect, 2000) set by effect run e fires.
ReconnectTimerFires(e) ==
    /\ hook.reconnectTimer[e] = "pending"
    /\ Len(hook.sockets) < MaxSockets
    /\ hook' = connect([hook EXCEPT !.reconnectTimer[e] = "fired"], e)
    /\ UNCHANGED <<viewerVars, relayVars, chartVars, devtools>>

NextWS ==
    \/ ChangeUrl
    \/ Unmount
    \/ \E i \in 1..Len(hook.sockets) : OnOpen(i)
    \/ \E i \in 1..Len(hook.sockets) : OnError(i)
    \/ \E i \in 1..Len(hook.sockets) : OnClose(i)
    \/ \E e \in 1..Len(hook.reconnectTimer) : ReconnectTimerFires(e)

SpecWS == InitWS /\ [][NextWS]_vars

\* The sockets of the hook that are connecting or open.
LiveSockets(h) ==
    {i \in 1..Len(h.sockets) : h.sockets[i].readyState \in {"connecting", "open"}}

\* C39: a step that creates a WebSocket creates it for the effect run that
\* has not been cleaned up, and after every step at most one socket of the
\* hook is connecting or open.
ConnectionLifetime ==
    [][/\ Len(hook'.sockets) > Len(hook.sockets) =>
              hook'.sockets[Len(hook'.sockets)].effect = CurrentEffect(hook')
       /\ Cardinality(LiveSockets(hook')) <= 1]_vars

\* The first half alone: no socket is created for an effect run whose cleanup
\* has run.
NoConnectAfterCleanup ==
    [][Len(hook'.sockets) > Len(hook.sockets) =>
           hook'.sockets[Len(hook'.sockets)].effect = CurrentEffect(hook')]_vars

\* The second half alone.
AtMostOneLiveSocket == Cardinality(LiveSockets(hook)) <= 1


---------------------------------------------------------------------------
\* The devtools page (entrypoints/devtools): createPanelWhenReady,
\* waitForDetection and the runtime.onMessage listener.  The background
\* script answers QUERY_STATUS with the detection result of the tab, which
\* changes as the page loads, and sends NEXTJS_DETECTION updates.

\* createPanelWhenReady calls that get past their first check.
MaxCalls == 2

\* maxAttempts of waitForDetection.
MaxAttempts == 2

\* result of a response or of a detection update
DetectionResults == [isNextjs : BOOLEAN, isDevelopment : BOOLEAN]

\* No response yet / the response is undefined.
NoResponse == [isNextjs |-> FALSE, isDevelopment |-> FALSE, valid |-> FALSE]

Response(result) ==
    [isNextjs |-> result.isNextjs, isDevelopment |-> result.isDevelopment,
     valid |-> TRUE]

Responses == {Response(result) : result \in DetectionResults} \cup {NoResponse}

\* response && isDevToolsResponseMessage(response) &&
\* response.result?.isNextjs && response.result?.isDevelopment
Detected(response) ==
    response.valid /\ response.isNextjs /\ response.isDevelopment

\* createPanelWhenReady() up to its await: the first sendMessage of
\* waitForDetection is on its way.
createPanelWhenReady(d) ==
    IF d.panelCreated
    THEN d
    ELSE [d EXCEPT !.calls = Append(@, [pc |-> "query", attempt |-> 1,
                                         response |-> NoResponse])]

\* Mutant: the flag is not read again after the await.
CreatesPanelWithoutRecheck(d, detected, ok) ==
    IF detected /\ ok
    THEN [d EXCEPT !.panels = @ + 1, !.panelCreated = TRUE]
    ELSE d

\* createPanelWhenReady() after its await; ok: panels.create did not throw.
CreatePanelIfDetected(d, detected, ok) ==
    IF detected /\ ~d.panelCreated /\ ok
    THEN [d EXCEPT !.panels = @ + 1, !.panelCreated = TRUE]
    ELSE d

\* The for loop of waitForDetection moves on from attempt calls[c].attempt.
NextAttempt(d, c) ==
    IF d.calls[c].attempt < MaxAttempts
    THEN [d EXCEPT !.calls[c].pc = "query", !.calls[c].attempt = @ + 1]
    ELSE CreatePanelIfDetected([d EXCEPT !.calls[c].pc = "done"], FALSE, TRUE)

InitDevtools ==
    /\ ViewerIdle
    /\ RelayIdle
    /\ ChartIdle
    /\ hook = HookUnmounted
    /\ devtools = createPanelWhenReady(DevtoolsClosed)

\* The runtime.onMessage listener receives a message; forThisTab: it is a
\* NEXTJS_DETECTION message for the inspected tab.
OnDetectionUpdate(result, forThisTab) ==
    /\ Len(devtools.calls) < MaxCalls
    /\ devtools' =
          IF /\ forThisTab
             /\ result.isNextjs /\ result.isDevelopment
             /\ ~devtools.panelCreated
          THEN createPanelWhenReady(devtools)
          ELSE devtools
    /\ UNCHANGED <<viewerVars, relayVars, chartVars, hook>>

\* The sendMessage of call c is answered.
OnQueryResponse(c, response, ok) ==
    /\ devtools.calls[c].pc = "query"
    /\ devtools' =
          IF Detected(response)
          THEN CreatePanelIfDetected(
                   [devtools EXCEPT !.calls[c].pc = "done",
                                    !.calls[c].response = response],
                   TRUE, ok)
          ELSE [devtools EXCEPT !.calls[c].pc = "delay",
                                !.calls[c].response = response]
    /\ UNCHANGED <<viewerVars, relayVars, chartVars, hook>>

\* The sendMessage of call c rejects: the catch logs and the loop goes on.
OnQueryError(c) ==
    /\ devtools.calls[c].pc = "query"
    /\ devtools' = NextAttempt(devtools, c)
    /\ UNCHANGED <<viewerVars, relayVars, chartVars, hook>>

\* The delay between two attempts of call c is over.
OnDelayElapsed(c) ==
    /\ devtools.calls[c].pc = "delay"
    /\ devtools' = NextAttempt(devtools, c)
    /\ UNCHANGED <<viewerVars, relayVars, chartVars, hook>>

NextDevtools ==
    \/ \E result \in DetectionResults, forThisTab \in BOOLEAN :
          OnDetectionUpdate(result, forThisTab)
    \/ \E c \in 1..Len(devtools.calls), response \in Responses, ok \in BOOLEAN :
          OnQueryResponse(c, response, ok)
    \/ \E c \in 1..Len(devtools.calls) : OnQueryError(c)
    \/ \E c \in 1..Len(devtools.calls) : OnDelayElapsed(c)

SpecDevtools == InitDevtools /\ [][NextDevtools]_vars

\* C40: the browser is asked for at most one panel, and only once some
\* waitForDetection has received a response reporting a Next.js application
\* in development.
PanelCreatedOnceAfterDetection ==
    /\ devtools.panels <= 1
    /\ devtools.panels > 0 =>
          \E c \in 1..Len(devtools.calls) : Detected(devtools.calls[c].response)

\* The panel exists and two calls have each ended on a positive response:
\* the later one found panelCreated set.
TwoCallsDetectedOnePanel ==
    /\ devtools.panels = 1
    /\ \E c, d \in 1..Len(devtools.calls) :
          /\ c # d
          /\ devtools.calls[c].pc = "done" /\ Detected(devtools.calls[c].response)
          /\ devtools.calls[d].pc = "done" /\ Detected(devtools.calls[d].response)

====
